---- MODULE Spec2Model ----
(***************************************************************************)
(* Model of the AER scraper's coordination code.                            *)
(*                                                                          *)
(* WebScraping/newtest: the per-well S3 lock (s3_lock.py) with TTL,          *)
(* heartbeat and purge, and process_one_well / process_dashboard of         *)
(* aer_multi_dash_mp.py, run by several scraper processes (one per          *)
(* machine) over the same wells.txt.  Every rclone call is one step: the    *)
(* remote store gives no transaction over two calls, so the steps of        *)
(* different workers interleave freely.                                     *)
(*                                                                          *)
(* Spec      : the lock protocol with time, heartbeat threads, crashes and  *)
(*             restarts.  The steps of process_one_well between the start   *)
(*             and the stop of the heartbeat read and write only the state, *)
(*             manifest and data objects, never a lock, a heartbeat or the  *)
(*             result of acquire_lock; they are one step here.              *)
(* SpecState : the same workers with every S3 read and write of             *)
(*             process_one_well as its own step, in runs shorter than one   *)
(*             heartbeat period and without crashes.                        *)
(*                                                                          *)
(* WebScraping/aer_multi_dash_mp.py (the root scraper): the manifest logic  *)
(* of compute_missing_sheets_for_dashboard and one call of                  *)
(* process_one_dashboard.                                                   *)
(*                                                                          *)
(* SpecDash  : one call of process_one_dashboard from every state of the    *)
(*             local dashboard folder and of the S3 prefix within the       *)
(*             bounds.                                                      *)
(***************************************************************************)
EXTENDS Integers, Sequences, FiniteSets, TLC

\* ---------------------------------------------------------------- constants
LOCK_TTL_SECONDS == 3600
HEARTBEAT_SEC == 120

\* The scraper processes (one per machine); each is started with the same
\* wells.txt, so their chunks overlap.
Workers == {"A", "B"}
wells == <<"W1">>
Wells == {wells[i] : i \in 1..Len(wells)}

\* The dashboards selected with --dashboards, and what the Tableau crosstab
\* dialog of a dashboard lists.
dashboards == <<"Well_Summary_Report">>
Codes == {dashboards[i] : i \in 1..Len(dashboards)}
MaxSheets == 2
dialog_sheets == [i \in 1..MaxSheets |-> <<"Sheet", i>>]
SheetNames == {dialog_sheets[i] : i \in 1..Len(dialog_sheets)}

\* ---------------------------------------------------------------- state
VARIABLES
    lock,        \* S3: locks/<well>.lock per well: exists, who wrote it, age of ModTime
    pc,          \* per worker: position in worker_main / process_one_well / acquire_lock
    well_i,      \* per worker: index into wells of the well being processed
    purge_arr,   \* per worker: lock objects purge_expired_locks found expired in its listing
    acq,         \* per worker: what the running acquire_lock read, wrote and returned
    hb,          \* per worker: position of the _HB thread ("none" when no thread lives)
    stop_flag,   \* per worker: _HB.stop_flag
    holding,     \* per worker: acquire_lock returned True and release_lock was not called yet
    state,       \* S3: state/wells/<label>.json per well
    manifest,    \* S3: Data/<label>/<dash>/sheets.txt per well and dashboard
    data,        \* S3: Data/<label>/<dash>/<label>__<sheet>.csv: absent, the first upload, or a later one
    marker,      \* S3: Data/<label>/.COMPLETE per well
    dash_i,      \* per worker: index into dashboards of the dashboard being processed
    st,          \* per worker: the dict state_load returned, until it is saved
    sheets,      \* per worker: the list discover_sheets returned
    todo,        \* per worker: the incomplete sheets not yet exported in this call
    clicked,     \* per worker: sheets whose export was clicked in this process_dashboard call
    force,       \* root scraper: argument force (--force) of process_one_dashboard
    allow_sheets, \* root scraper: argument allow_sheets
    dash_dir,    \* root scraper: local dashboard folder: sheets.txt and the export files
    remote,      \* root scraper, S3: the dashboard's sheets.txt and export files, the well's markers
    pod,         \* root scraper: the running process_one_dashboard call: position and locals
    sap,         \* linux/scrape_and_push.py: the running main(): position, local folder, S3 prefix, stages run
    uw,         \* UWI handling: a wells.txt entry, its wrapped form and the short form read back
    csv,         \* normalize_csv_file: the rows read from the export file and the rows written back
    wh,         \* pg_build_warehouse.build: the files of one (dashboard, sheet) dataset, the raw table and the rows inserted
    xt,         \* crosstab dialog: what the page shows and the running wait_for_crosstab_ready_or_empty
    ow,         \* root worker_main with old/s3_lock.py: position, well, lock objects, heartbeat threads
    ds,         \* one call of newtest discover_sheets: position, S3 manifest, local sheets.txt, browser, listings
    oc          \* root download loop: open of the crosstab dialog per sheet, with its retry

lockVars == <<lock, pc, well_i, purge_arr, acq, hb, stop_flag, holding>>
s3Vars == <<state, manifest, data, marker>>
workVars == <<dash_i, st, sheets, todo, clicked>>
dashVars == <<force, allow_sheets, dash_dir, remote, pod>>
workerVars == <<lockVars, s3Vars, workVars>>
vars == <<lock, pc, well_i, purge_arr, acq, hb, stop_flag, holding,
          state, manifest, data, marker,
          dash_i, st, sheets, todo, clicked,
          force, allow_sheets, dash_dir, remote, pod,
          sap, uw, csv, wh, xt, ow, ds, oc>>
toolVars == <<sap, uw, csv, wh, xt, ow, ds, oc>>
\* everything but one tool's variable
ocRest == <<workerVars, dashVars, sap, uw, csv, wh, xt, ow, ds>>
dsRest == <<workerVars, dashVars, sap, uw, csv, wh, xt, ow, oc>>
owRest == <<workerVars, dashVars, sap, uw, csv, wh, xt, ds, oc>>
xtRest == <<workerVars, dashVars, sap, uw, csv, wh, ow, ds, oc>>
whRest == <<workerVars, dashVars, sap, uw, csv, xt, ow, ds, oc>>
csvRest == <<workerVars, dashVars, sap, uw, wh, xt, ow, ds, oc>>
uwRest == <<workerVars, dashVars, sap, csv, wh, xt, ow, ds, oc>>
sapRest == <<workerVars, dashVars, uw, csv, wh, xt, ow, ds, oc>>

lockRest == <<lock, well_i, purge_arr, acq, hb, stop_flag, holding>>

NoLock == [exists |-> FALSE, by |-> "none", age |-> 0]
NoAcq == [exists |-> FALSE, age |-> 0, parsed |-> TRUE, rcat |-> "none", ret |-> FALSE]

Min(a, b) == IF a < b THEN a ELSE b
AgeCap == LOCK_TTL_SECONDS + HEARTBEAT_SEC

uwi(p) == wells[well_i[p]]
code(p) == dashboards[dash_i[p]]

\* s3_lock.py line 48: a lock younger than the TTL is fresh
IsFresh_Inclusive(age) == age <= LOCK_TTL_SECONDS
IsFresh(age) == age < LOCK_TTL_SECONDS
\* s3_lock.py line 31: purge deletes a lock older than the TTL
IsExpired(age) == age > LOCK_TTL_SECONDS
\* s3_lock.py lines 29-30 and 44-47: an unparseable ModTime counts as now
AgeSeen_Raw(age, parsed) == age
AgeSeen(age, parsed) == IF parsed THEN age ELSE 0
\* s3_lock.py lines 25-31: the objects of a listing l that purge finds expired,
\* when the ModTime of the objects in unparsed cannot be parsed
ExpiredIn(l, unparsed) ==
    {w \in Wells : l[w].exists /\ IsExpired(AgeSeen(l[w].age, w \notin unparsed))}

\* worker_main's for loop: the next well of the chunk, or the end of the process
NextPc_Retry(p) == "purge_list"
NextPc(p) == IF well_i[p] < Len(wells) THEN "purge_list" ELSE "cleanup"
NextWell(p) == IF well_i[p] < Len(wells) THEN well_i[p] + 1 ELSE well_i[p]

\* ---------------------------------------------------------------- per-well state dict
EmptyMap == [x \in {} |-> "incomplete"]
SetDefault(f, k, v) ==
    IF k \in DOMAIN f THEN f ELSE [x \in DOMAIN f \cup {k} |-> IF x = k THEN v ELSE f[x]]
Put(f, k, v) == [x \in DOMAIN f \cup {k} |-> IF x = k THEN v ELSE f[x]]

\* ---- strings are sequences of characters (a wells.txt entry that holds no
\* separator can be one piece)
IsSpace(c) == c = " "
RECURSIVE lstrip(_)
lstrip(s) == IF s # <<>> /\ IsSpace(Head(s)) THEN lstrip(Tail(s)) ELSE s
RECURSIVE rstrip(_)
rstrip(s) ==
    IF s # <<>> /\ IsSpace(s[Len(s)]) THEN rstrip(SubSeq(s, 1, Len(s) - 1)) ELSE s
\* str.strip()
strip(s) == rstrip(lstrip(s))

\* the three scrapers carry their own copy of the UWI functions
Variants == {"root", "newtest", "linux"}

\* [A-Z0-9] in root and newtest, [A-Za-z0-9] in linux
IsPrefixChar(v, c) == c \in {"0", "A"} \/ (v = "linux" /\ c = "a")
\* \d
IsDigit(c) == c = "0"

\* WRAPPED_RE.match(u) for ^(prefix{1,2})/(.+)/(\d)$ : whether it matches, and group(2)
WRAPPED_RE(v, u) ==
    LET n == Len(u)
        ks == {k \in 1..2 : /\ n >= k + 4
                            /\ \A i \in 1..k : IsPrefixChar(v, u[i])
                            /\ u[k + 1] = "/"
                            /\ u[n - 1] = "/"
                            /\ IsDigit(u[n])}
    IN  IF ks = {} THEN [match |-> FALSE, group2 |-> <<>>]
        ELSE [match |-> TRUE, group2 |-> SubSeq(u, (CHOOSE k \in ks : TRUE) + 2, n - 2)]

to_short_uwi_Whole(v, raw) == strip(raw)
to_short_uwi(v, raw) ==
    LET m == WRAPPED_RE(v, strip(raw)) IN
    IF m.match THEN m.group2
    ELSE IF v = "newtest" THEN raw ELSE strip(raw)

\* u when u is wrapped already, else 00/<u>/0
ensure_wrapped(v, raw) ==
    LET u == strip(raw) IN
    IF WRAPPED_RE(v, u).match THEN u
    ELSE <<"0", "0", "/">> \o (IF v = "root" THEN to_short_uwi(v, u) ELSE u) \o <<"/", "0">>

\* state_load lines 107 and 112: the dict returned for a missing, unreadable or corrupt object
MinimalState == [uwi_wrapped |-> <<>>, dashboards |-> EmptyMap]
NoState == [exists |-> FALSE, uwi_wrapped |-> <<>>, dashboards |-> EmptyMap]
NewDash == [status |-> "incomplete", files |-> EmptyMap]

\* state_load lines 104-115; read_ok is whether rclone cat gave parseable JSON
state_load(w, read_ok) ==
    IF read_ok /\ state[w].exists
    THEN [uwi_wrapped |-> state[w].uwi_wrapped, dashboards |-> state[w].dashboards]
    ELSE MinimalState

\* state_ensure_well lines 124-126
EnsureWell(s, u) ==
    [s EXCEPT !.uwi_wrapped = IF @ = <<>> THEN ensure_wrapped("newtest", <<u>>) ELSE @]

AllComplete(files) == \A x \in DOMAIN files : files[x] = "complete"
DashStatus(files) == IF AllComplete(files) THEN "complete" ELSE "incomplete"

RECURSIVE EnsureFiles(_, _)
\* state_list_incomplete_sheets lines 133-134
EnsureFiles(files, all) ==
    IF all = <<>> THEN files
    ELSE EnsureFiles(SetDefault(files, Head(all), "incomplete"), Tail(all))

\* state_list_incomplete_sheets lines 130-134: the entries it adds to the dict
EnsureEntries(s, c, all) ==
    LET d == SetDefault(s.dashboards, c, NewDash)[c]
    IN [s EXCEPT !.dashboards = Put(s.dashboards, c, [d EXCEPT !.files = EnsureFiles(@, all)])]

\* state_list_incomplete_sheets line 136, on the dict with its entries ensured
Incompletes(s, c, all) ==
    SelectSeq(all, LAMBDA x : s.dashboards[c].files[x] # "complete")

\* state_mark_sheet_complete lines 140-145
MarkSheetComplete(s, c, sheet) ==
    LET d == SetDefault(s.dashboards, c, NewDash)[c]
        files == Put(d.files, sheet, "complete")
    IN [s EXCEPT !.dashboards = Put(s.dashboards, c,
                                    [status |-> DashStatus(files), files |-> files])]

\* state_mark_dashboard_done lines 150-152
MarkDashboardDone(s, c) ==
    LET d == SetDefault(s.dashboards, c, NewDash)[c]
    IN [s EXCEPT !.dashboards = Put(s.dashboards, c,
                                    [status |-> DashStatus(d.files), files |-> d.files])]

\* can_skip_well_by_state lines 158-163
CanSkip(s) ==
    /\ DOMAIN s.dashboards # {}
    /\ \A i \in 1..Len(dashboards) :
          /\ dashboards[i] \in DOMAIN s.dashboards
          /\ s.dashboards[dashboards[i]].status = "complete"

\* the sheets a state dict shows complete
CompleteIn(s) ==
    {cx \in Codes \X SheetNames :
        /\ cx[1] \in DOMAIN s.dashboards
        /\ cx[2] \in DOMAIN s.dashboards[cx[1]].files
        /\ s.dashboards[cx[1]].files[cx[2]] = "complete"}

\* state_save lines 117-119: the dict replaces the stored object
Saved(s) == [exists |-> TRUE, uwi_wrapped |-> s.uwi_wrapped, dashboards |-> s.dashboards]

\* process_one_well lines 644-649: the next dashboard, or the finally block
DashNextPc(p) == IF dash_i[p] < Len(dashboards) THEN "disc_load" ELSE "hb_stop"
DashNextI(p) == IF dash_i[p] < Len(dashboards) THEN dash_i[p] + 1 ELSE dash_i[p]

NoManifest == [exists |-> FALSE, lines |-> <<>>]

InitWorkers ==
    /\ lock = [w \in Wells |-> NoLock]
    /\ pc = [p \in Workers |-> "purge_list"]
    /\ well_i = [p \in Workers |-> 1]
    /\ purge_arr = [p \in Workers |-> {}]
    /\ acq = [p \in Workers |-> NoAcq]
    /\ hb = [p \in Workers |-> "none"]
    /\ stop_flag = [p \in Workers |-> FALSE]
    /\ holding = [p \in Workers |-> FALSE]
    /\ state = [w \in Wells |-> NoState]
    /\ manifest = [w \in Wells |-> [c \in Codes |-> NoManifest]]
    /\ data = [k \in Wells \X Codes \X SheetNames |-> "none"]
    /\ marker = [w \in Wells |-> FALSE]
    /\ dash_i = [p \in Workers |-> 1]
    /\ st = [p \in Workers |-> MinimalState]
    /\ sheets = [p \in Workers |-> <<>>]
    /\ todo = [p \in Workers |-> <<>>]
    /\ clicked = [p \in Workers |-> <<>>]

\* ---------------------------------------------------------------- s3_lock.py
\* purge_expired_locks, lines 24-31: one listing of locks/, from which the
\* expired objects are decided
purge_expired_locks_list(p) ==
    /\ UNCHANGED <<dashVars, toolVars>>
    /\ pc[p] = "purge_list"
    /\ \E unparsed \in SUBSET {w \in Wells : lock[w].exists} :
        LET arr == ExpiredIn(lock, unparsed)
        IN /\ purge_arr' = [purge_arr EXCEPT ![p] = arr]
           /\ pc' = [pc EXCEPT ![p] = IF arr = {} THEN "acq_lsjson" ELSE "purge_delete"]
    /\ acq' = [acq EXCEPT ![p] = NoAcq]
    /\ UNCHANGED <<lock, well_i, hb, stop_flag, holding, s3Vars, workVars>>

\* purge_expired_locks, line 32: _delete of one object found expired
purge_expired_locks_delete(p) ==
    /\ UNCHANGED <<dashVars, toolVars>>
    /\ pc[p] = "purge_delete"
    /\ \E w \in purge_arr[p] :
        /\ lock' = [lock EXCEPT ![w] = NoLock]
        /\ purge_arr' = [purge_arr EXCEPT ![p] = @ \ {w}]
        /\ pc' = [pc EXCEPT ![p] = IF purge_arr[p] = {w} THEN "acq_lsjson" ELSE "purge_delete"]
    /\ UNCHANGED <<well_i, acq, hb, stop_flag, holding, s3Vars, workVars>>

\* acquire_lock, lines 40-49: lsjson of the key and the freshness test
acquire_lock_lsjson(p) ==
    /\ UNCHANGED <<dashVars, toolVars>>
    /\ pc[p] = "acq_lsjson"
    /\ LET o == lock[uwi(p)] IN
       IF o.exists
       THEN \E parsed \in BOOLEAN :
              /\ acq' = [acq EXCEPT ![p] = [exists |-> TRUE, age |-> o.age, parsed |-> parsed,
                                            rcat |-> "none", ret |-> FALSE]]
              /\ pc' = [pc EXCEPT ![p] = IF IsFresh(AgeSeen(o.age, parsed))
                                         THEN "acq_ret" ELSE "acq_delete"]
       ELSE /\ acq' = [acq EXCEPT ![p] = NoAcq]
            /\ pc' = [pc EXCEPT ![p] = "acq_rcat"]
    /\ UNCHANGED <<lock, well_i, purge_arr, hb, stop_flag, holding, s3Vars, workVars>>

\* acquire_lock, line 50: delete the stale object
acquire_lock_delete(p) ==
    /\ UNCHANGED <<dashVars, toolVars>>
    /\ pc[p] = "acq_delete"
    /\ lock' = [lock EXCEPT ![uwi(p)] = NoLock]
    /\ pc' = [pc EXCEPT ![p] = "acq_rcat"]
    /\ UNCHANGED <<well_i, purge_arr, acq, hb, stop_flag, holding, s3Vars, workVars>>

\* acquire_lock, lines 51-58: rcat of the payload; the result is rclone's exit code
acquire_lock_rcat(p) ==
    /\ UNCHANGED <<dashVars, toolVars>>
    /\ pc[p] = "acq_rcat"
    /\ \E ok \in BOOLEAN :
        /\ lock' = IF ok THEN [lock EXCEPT ![uwi(p)] = [exists |-> TRUE, by |-> p, age |-> 0]]
                         ELSE lock
        /\ acq' = [acq EXCEPT ![p].rcat = IF ok THEN "ok" ELSE "fail", ![p].ret = ok]
        /\ holding' = [holding EXCEPT ![p] = ok]
    /\ pc' = [pc EXCEPT ![p] = "acq_ret"]
    /\ UNCHANGED <<well_i, purge_arr, hb, stop_flag, s3Vars, workVars>>

\* release_lock, lines 60-61, and worker_main's step to the next well
release_lock(p) ==
    /\ UNCHANGED <<dashVars, toolVars>>
    /\ pc[p] = "release"
    /\ lock' = [lock EXCEPT ![uwi(p)] = NoLock]
    /\ holding' = [holding EXCEPT ![p] = FALSE]
    /\ pc' = [pc EXCEPT ![p] = NextPc(p)]
    /\ well_i' = [well_i EXCEPT ![p] = NextWell(p)]
    /\ UNCHANGED <<purge_arr, acq, hb, stop_flag, s3Vars, workVars>>

\* _HB._loop, lines 69-73: rclone touch sets the ModTime to now, and creates
\* the object when it is absent
HB_touch(p) ==
    /\ UNCHANGED <<dashVars, toolVars>>
    /\ hb[p] = "touch"
    /\ lock' = [lock EXCEPT ![uwi(p)] =
                  [exists |-> TRUE, by |-> IF @.exists THEN @.by ELSE p, age |-> 0]]
    /\ hb' = [hb EXCEPT ![p] = "sleep"]
    /\ UNCHANGED <<pc, well_i, purge_arr, acq, stop_flag, holding, s3Vars, workVars>>

\* _HB._loop, line 69 after line 74: the sleep is over, the flag is tested
HB_wake(p) ==
    /\ UNCHANGED <<dashVars, toolVars>>
    /\ hb[p] = "wake"
    /\ hb' = [hb EXCEPT ![p] = IF stop_flag[p] THEN "none" ELSE "touch"]
    /\ UNCHANGED <<lock, pc, well_i, purge_arr, acq, stop_flag, holding, s3Vars, workVars>>

\* process_one_well line 651, _HB.stop lines 75-78: the flag is set;
\* join(timeout=2) does not wait for a thread that sleeps HEARTBEAT_SEC or runs rclone
HB_stop_Skipped(p) ==
    /\ UNCHANGED <<dashVars, toolVars>>
    /\ pc[p] = "hb_stop"
    /\ pc' = [pc EXCEPT ![p] = "release"]
    /\ UNCHANGED <<lock, well_i, purge_arr, acq, hb, stop_flag, holding, s3Vars, workVars>>
HB_stop(p) ==
    /\ UNCHANGED <<dashVars, toolVars>>
    /\ pc[p] = "hb_stop"
    /\ stop_flag' = [stop_flag EXCEPT ![p] = TRUE]
    /\ pc' = [pc EXCEPT ![p] = "release"]
    /\ UNCHANGED <<lock, well_i, purge_arr, acq, hb, holding, s3Vars, workVars>>

\* ---------------------------------------------------------------- process_one_well
\* after acquire_lock returned: skip the well (lines 627-629), or start the
\* heartbeat (line 630, _HB.__init__ lines 64-67)
AfterAcquire_Ignored(ret) == "can_skip"
AfterAcquire(ret) == IF ret THEN "can_skip" ELSE "skip_well"

process_one_well_locked(p) ==
    /\ UNCHANGED <<dashVars, toolVars>>
    /\ pc[p] = "acq_ret"
    /\ IF AfterAcquire(acq[p].ret) = "can_skip"
       THEN /\ hb' = [hb EXCEPT ![p] = "touch"]
            /\ stop_flag' = [stop_flag EXCEPT ![p] = FALSE]
            /\ pc' = [pc EXCEPT ![p] = "can_skip"]
            /\ UNCHANGED well_i
       ELSE /\ pc' = [pc EXCEPT ![p] = NextPc(p)]
            /\ well_i' = [well_i EXCEPT ![p] = NextWell(p)]
            /\ UNCHANGED <<hb, stop_flag>>
    /\ acq' = [acq EXCEPT ![p] = NoAcq]
    /\ UNCHANGED <<lock, purge_arr, holding, s3Vars, workVars>>

\* process_one_well lines 631-650 as one step: the reads and writes of the
\* state, manifest and data objects, which SpecState takes one by one
process_one_well_body(p) ==
    /\ UNCHANGED <<dashVars, toolVars>>
    /\ pc[p] = "can_skip"
    /\ pc' = [pc EXCEPT ![p] = "hb_stop"]
    /\ UNCHANGED <<lockRest, s3Vars, workVars>>

\* state_save lines 117-119 (s3_put_text of the dict)
state_save(w, s) ==
    /\ state' = [state EXCEPT ![w] = Saved(s)]

\* process_dashboard returns or raises (process_one_well lines 644-649)
EndDash(p) ==
    /\ pc' = [pc EXCEPT ![p] = DashNextPc(p)]
    /\ dash_i' = [dash_i EXCEPT ![p] = DashNextI(p)]
    /\ st' = [st EXCEPT ![p] = MinimalState]
    /\ sheets' = [sheets EXCEPT ![p] = <<>>]
    /\ todo' = [todo EXCEPT ![p] = <<>>]
    /\ clicked' = [clicked EXCEPT ![p] = <<>>]

\* process_one_well lines 632-635, can_skip_well_by_state lines 156-163
can_skip_well_by_state(p) ==
    /\ UNCHANGED <<dashVars, toolVars>>
    /\ pc[p] = "can_skip"
    /\ \E read_ok \in BOOLEAN :
        pc' = [pc EXCEPT ![p] = IF CanSkip(state_load(uwi(p), read_ok))
                                THEN "hb_stop" ELSE "ensure_load"]
    /\ UNCHANGED <<lockRest, s3Vars, workVars>>

\* process_one_well lines 631-641 and 650: an exception that nothing inside
\* the try catches (state_load on JSON that is no dict, lines 114-115; rclone
\* not startable; mkdir, line 640) leaves through the finally.  It then ends
\* worker_main's loop (lines 688-690), which after the last well of the chunk
\* is where NextPc leads as well.
process_one_well_raises(p) ==
    /\ UNCHANGED <<dashVars, toolVars>>
    /\ pc[p] \in {"can_skip", "ensure_load", "ensure_save"}
    /\ pc' = [pc EXCEPT ![p] = "hb_stop"]
    /\ st' = [st EXCEPT ![p] = MinimalState]
    /\ UNCHANGED <<lockRest, s3Vars, dash_i, sheets, todo, clicked>>

\* state_ensure_well line 123
state_ensure_well_load(p) ==
    /\ UNCHANGED <<dashVars, toolVars>>
    /\ pc[p] = "ensure_load"
    /\ \E read_ok \in BOOLEAN : st' = [st EXCEPT ![p] = state_load(uwi(p), read_ok)]
    /\ pc' = [pc EXCEPT ![p] = "ensure_save"]
    /\ UNCHANGED <<lockRest, s3Vars, dash_i, sheets, todo, clicked>>

\* state_ensure_well lines 124-127, then the first dashboard (line 644)
state_ensure_well_save(p) ==
    /\ UNCHANGED <<dashVars, toolVars>>
    /\ pc[p] = "ensure_save"
    /\ state_save(uwi(p), EnsureWell(st[p], uwi(p)))
    /\ st' = [st EXCEPT ![p] = MinimalState]
    /\ dash_i' = [dash_i EXCEPT ![p] = 1]
    /\ pc' = [pc EXCEPT ![p] = "disc_load"]
    /\ UNCHANGED <<lockRest, manifest, data, marker, sheets, todo, clicked>>

\* discover_sheets lines 503-506: a non-empty S3 manifest is used as it is
discover_sheets_manifest(p) ==
    /\ UNCHANGED <<dashVars, toolVars>>
    /\ pc[p] = "disc_load"
    /\ \E read_ok \in BOOLEAN :
        LET m == manifest[uwi(p)][code(p)] IN
        IF read_ok /\ m.exists /\ m.lines # <<>>
        THEN /\ sheets' = [sheets EXCEPT ![p] = m.lines]
             /\ pc' = [pc EXCEPT ![p] = "pd_load"]
        ELSE /\ pc' = [pc EXCEPT ![p] = "disc_browse"]
             /\ UNCHANGED sheets
    /\ UNCHANGED <<lockRest, s3Vars, dash_i, st, todo, clicked>>

\* discover_sheets lines 509-548: the dialog is listed (empty when it did not
\* load within the retries) and the list is saved; a Selenium call may raise
discover_sheets_browser(p) ==
    /\ UNCHANGED <<dashVars, toolVars>>
    /\ pc[p] = "disc_browse"
    /\ \/ /\ EndDash(p)
          /\ UNCHANGED <<lockRest, s3Vars>>
       \/ \E listed \in {<<>>, dialog_sheets} :
            /\ manifest' = [manifest EXCEPT ![uwi(p)][code(p)] =
                               [exists |-> TRUE, lines |-> listed]]
            /\ sheets' = [sheets EXCEPT ![p] = listed]
            /\ pc' = [pc EXCEPT ![p] = "pd_load"]
            /\ UNCHANGED <<lockRest, state, data, marker,
                           dash_i, st, todo, clicked>>

\* process_dashboard lines 564-565
process_dashboard_state_load(p) ==
    /\ UNCHANGED <<dashVars, toolVars>>
    /\ pc[p] = "pd_load"
    /\ \E read_ok \in BOOLEAN :
        LET s == EnsureEntries(state_load(uwi(p), read_ok), code(p), sheets[p]) IN
        /\ st' = [st EXCEPT ![p] = s]
        /\ todo' = [todo EXCEPT ![p] = Incompletes(s, code(p), sheets[p])]
    /\ pc' = [pc EXCEPT ![p] = "pd_save"]
    /\ UNCHANGED <<lockRest, s3Vars, dash_i, sheets, clicked>>

\* process_dashboard lines 566-579: save, then the branch on what is left to do
AfterStateSave(all, incompletes) ==
    IF all = <<>> \/ incompletes = <<>> THEN "done_load" ELSE "open"

process_dashboard_state_save(p) ==
    /\ UNCHANGED <<dashVars, toolVars>>
    /\ pc[p] = "pd_save"
    /\ state_save(uwi(p), st[p])
    /\ st' = [st EXCEPT ![p] = MinimalState]
    /\ pc' = [pc EXCEPT ![p] = AfterStateSave(sheets[p], todo[p])]
    /\ UNCHANGED <<lockRest, manifest, data, marker, dash_i, sheets, todo, clicked>>

\* process_dashboard lines 581-586: the viz and the dialog are opened for export
process_dashboard_open(p) ==
    /\ UNCHANGED <<dashVars, toolVars>>
    /\ pc[p] = "open"
    /\ \/ EndDash(p)
       \/ /\ pc' = [pc EXCEPT ![p] = "export"]
          /\ UNCHANGED <<dash_i, st, sheets, todo, clicked>>
    /\ UNCHANGED <<lockRest, s3Vars>>

\* process_dashboard lines 588-600: select the sheet, click export, wait for
\* the download; selecting or clicking may raise, the download may time out
process_dashboard_export(p) ==
    /\ UNCHANGED <<dashVars, toolVars>>
    /\ pc[p] = "export"
    /\ \/ EndDash(p)
       \/ /\ clicked' = [clicked EXCEPT ![p] = Append(@, Head(todo[p]))]
          /\ \E saved \in BOOLEAN :
               IF saved
               THEN /\ pc' = [pc EXCEPT ![p] = "up_exists"]
                    /\ UNCHANGED todo
               ELSE /\ todo' = [todo EXCEPT ![p] = Tail(@)]
                    /\ pc' = [pc EXCEPT ![p] = IF Tail(todo[p]) = <<>>
                                               THEN "done_load" ELSE "export"]
          /\ UNCHANGED <<dash_i, st, sheets>>
    /\ UNCHANGED <<lockRest, s3Vars>>

\* process_dashboard lines 608-609: the remote key of the sheet being exported
remote_key(p) == <<uwi(p), code(p), Head(todo[p])>>

\* s3_copyto_if_new line 30, s3_exists lines 23-27: a failed lsjson reads as absent
s3_copyto_if_new_exists(p) ==
    /\ UNCHANGED <<dashVars, toolVars>>
    /\ pc[p] = "up_exists"
    /\ \E ls_ok \in BOOLEAN :
        pc' = [pc EXCEPT ![p] = IF ls_ok /\ data[remote_key(p)] # "none"
                                THEN "mark_load" ELSE "up_copyto"]
    /\ UNCHANGED <<lockRest, s3Vars, workVars>>

\* s3_copyto_if_new line 32: rclone copyto --ignore-existing looks the
\* destination up and skips the transfer when it is there
s3_copyto_if_new_copyto(p) ==
    /\ UNCHANGED <<dashVars, toolVars>>
    /\ pc[p] = "up_copyto"
    /\ pc' = [pc EXCEPT ![p] = IF data[remote_key(p)] # "none" THEN "mark_load" ELSE "up_put"]
    /\ UNCHANGED <<lockRest, s3Vars, workVars>>

\* s3_copyto_if_new lines 32-33: the transfer of rclone copyto; an S3 put
\* replaces whatever is stored at the key
s3_copyto_if_new_put(p) ==
    /\ UNCHANGED <<dashVars, toolVars>>
    /\ pc[p] = "up_put"
    /\ \E ok \in BOOLEAN :
        data' = IF ok THEN [data EXCEPT ![remote_key(p)] =
                            IF @ = "none" THEN "first" ELSE "later"]
                ELSE data
    /\ pc' = [pc EXCEPT ![p] = "mark_load"]
    /\ UNCHANGED <<lockRest, state, manifest, marker, workVars>>

\* state_mark_sheet_complete line 139 (process_dashboard line 615)
state_mark_sheet_complete_load(p) ==
    /\ UNCHANGED <<dashVars, toolVars>>
    /\ pc[p] = "mark_load"
    /\ \E read_ok \in BOOLEAN : st' = [st EXCEPT ![p] = state_load(uwi(p), read_ok)]
    /\ pc' = [pc EXCEPT ![p] = "mark_save"]
    /\ UNCHANGED <<lockRest, s3Vars, dash_i, sheets, todo, clicked>>

\* state_mark_sheet_complete lines 140-146, then the next sheet of the loop
state_mark_sheet_complete_save(p) ==
    /\ UNCHANGED <<dashVars, toolVars>>
    /\ pc[p] = "mark_save"
    /\ state_save(uwi(p), MarkSheetComplete(st[p], code(p), Head(todo[p])))
    /\ st' = [st EXCEPT ![p] = MinimalState]
    /\ todo' = [todo EXCEPT ![p] = Tail(@)]
    /\ pc' = [pc EXCEPT ![p] = IF Tail(todo[p]) = <<>> THEN "done_load" ELSE "export"]
    /\ UNCHANGED <<lockRest, manifest, data, marker, dash_i, sheets, clicked>>

\* state_mark_dashboard_done line 149 (process_dashboard lines 570, 577, 619)
state_mark_dashboard_done_load(p) ==
    /\ UNCHANGED <<dashVars, toolVars>>
    /\ pc[p] = "done_load"
    /\ \E read_ok \in BOOLEAN : st' = [st EXCEPT ![p] = state_load(uwi(p), read_ok)]
    /\ pc' = [pc EXCEPT ![p] = "done_save"]
    /\ UNCHANGED <<lockRest, s3Vars, dash_i, sheets, todo, clicked>>

\* state_mark_dashboard_done lines 150-154; with no sheets the marker follows
state_mark_dashboard_done_save(p) ==
    /\ UNCHANGED <<dashVars, toolVars>>
    /\ pc[p] = "done_save"
    /\ state_save(uwi(p), MarkDashboardDone(st[p], code(p)))
    /\ IF sheets[p] = <<>>
       THEN /\ pc' = [pc EXCEPT ![p] = "put_marker"]
            /\ st' = [st EXCEPT ![p] = MinimalState]
            /\ UNCHANGED <<dash_i, sheets, todo, clicked>>
       ELSE EndDash(p)
    /\ UNCHANGED <<lockRest, manifest, data, marker>>

\* process_dashboard lines 572-573: the .COMPLETE marker of a well without sheets
process_dashboard_marker(p) ==
    /\ UNCHANGED <<dashVars, toolVars>>
    /\ pc[p] = "put_marker"
    /\ marker' = [marker EXCEPT ![uwi(p)] = TRUE]
    /\ EndDash(p)
    /\ UNCHANGED <<lockRest, state, manifest, data>>

\* ---------------------------------------------------------------- processes
\* worker_main lines 692-693: the process ends, and its daemon thread with it
worker_exit(p) ==
    /\ UNCHANGED <<dashVars, toolVars>>
    /\ pc[p] = "cleanup"
    /\ pc' = [pc EXCEPT ![p] = "done"]
    /\ hb' = [hb EXCEPT ![p] = "none"]
    /\ UNCHANGED <<lock, well_i, purge_arr, acq, stop_flag, holding, s3Vars, workVars>>

\* worker_main lines 680-681: SIGINT/SIGTERM end the process with os._exit,
\* without release_lock
Crash(p) ==
    /\ UNCHANGED <<dashVars, toolVars>>
    /\ holding[p]
    /\ pc' = [pc EXCEPT ![p] = "crashed"]
    /\ hb' = [hb EXCEPT ![p] = "none"]
    /\ holding' = [holding EXCEPT ![p] = FALSE]
    /\ st' = [st EXCEPT ![p] = MinimalState]
    /\ sheets' = [sheets EXCEPT ![p] = <<>>]
    /\ todo' = [todo EXCEPT ![p] = <<>>]
    /\ clicked' = [clicked EXCEPT ![p] = <<>>]
    /\ UNCHANGED <<lock, well_i, purge_arr, acq, stop_flag, dash_i, s3Vars>>

\* main lines 729-733: the scraper is started again on that machine
Restart(p) ==
    /\ UNCHANGED <<dashVars, toolVars>>
    /\ pc[p] \in {"done", "crashed"}
    /\ pc' = [pc EXCEPT ![p] = "purge_list"]
    /\ well_i' = [well_i EXCEPT ![p] = 1]
    /\ dash_i' = [dash_i EXCEPT ![p] = 1]
    /\ purge_arr' = [purge_arr EXCEPT ![p] = {}]
    /\ acq' = [acq EXCEPT ![p] = NoAcq]
    /\ stop_flag' = [stop_flag EXCEPT ![p] = FALSE]
    /\ UNCHANGED <<lock, hb, holding, s3Vars, st, sheets, todo, clicked>>

\* Time.  A running heartbeat sleeps HEARTBEAT_SEC between touches
\* (s3_lock.py line 74), so while one runs time passes one period at a time
\* and the touch follows before more time passes; while none runs and no
\* live worker is inside its locked section, LOCK_TTL_SECONDS may pass.
Tick(d) ==
    /\ UNCHANGED <<dashVars, toolVars>>
    /\ \A p \in Workers : hb[p] \notin {"touch", "wake"}
    /\ IF \E p \in Workers : hb[p] = "sleep"
       THEN d = HEARTBEAT_SEC
       ELSE d = LOCK_TTL_SECONDS /\ \A p \in Workers : ~holding[p]
    /\ \E w \in Wells : lock[w].exists
    /\ lock' = [w \in Wells |-> IF lock[w].exists
                                THEN [lock[w] EXCEPT !.age = Min(@ + d, AgeCap)]
                                ELSE lock[w]]
    /\ hb' = [p \in Workers |-> IF hb[p] = "sleep" THEN "wake" ELSE hb[p]]
    /\ UNCHANGED <<pc, well_i, purge_arr, acq, stop_flag, holding, s3Vars, workVars>>

\* ------------------------------------------- WebScraping/aer_multi_dash_mp.py
\* Names and lines of text are sequences of characters.  Of the characters
\* used here, "A", "b" and "_" are in [A-Za-z0-9_.-], " " is whitespace and
\* "/" is neither.
IsSafeChar(c) == c \in {"A", "b", "_"}
Lower(c) == IF c = "A" THEN "a" ELSE c
IsLowerAlnum(c) == c \in {"a", "b"}

\* the rest of s after its leading characters outside [A-Za-z0-9_.-]
RECURSIVE SkipUnsafe(_)
SkipUnsafe(s) == IF s # <<>> /\ ~IsSafeChar(Head(s)) THEN SkipUnsafe(Tail(s)) ELSE s
\* re.sub(r"[^A-Za-z0-9_.-]+", "_", s): each run of other characters becomes one "_"
RECURSIVE SubUnsafe(_)
SubUnsafe(s) ==
    IF s = <<>> THEN <<>>
    ELSE IF IsSafeChar(Head(s)) THEN <<Head(s)>> \o SubUnsafe(Tail(s))
    ELSE <<"_">> \o SubUnsafe(SkipUnsafe(s))
sanitize_name(s) == SubUnsafe(strip(s))

\* re.sub(r"[^a-z0-9]+", "", s.lower())
RECURSIVE _norm_name(_)
_norm_name(s) ==
    IF s = <<>> THEN <<>>
    ELSE IF IsLowerAlnum(Lower(Head(s))) THEN <<Lower(Head(s))>> \o _norm_name(Tail(s))
    ELSE _norm_name(Tail(s))

\* Python's  k in s  on strings
IsSubstring(k, s) ==
    \E i \in 0..(Len(s) - Len(k)) : SubSeq(s, i + 1, i + Len(k)) = k

\* Optional[List[str]]
None == [some |-> FALSE, v |-> <<>>]
Some(v) == [some |-> TRUE, v |-> v]

should_keep_sheet(sheet_name, allow_list) ==
    IF ~allow_list.some THEN TRUE
    ELSE LET s_norm == _norm_name(sheet_name) IN
         \E i \in 1..Len(allow_list.v) :
            LET k_norm == _norm_name(allow_list.v[i]) IN
            /\ k_norm # <<>>
            /\ IsSubstring(k_norm, s_norm) \/ IsSubstring(s_norm, k_norm)

\* [s for s in all_sheets if should_keep_sheet(s, allow_sheets)]
RECURSIVE KeepSheets(_, _)
KeepSheets(all_sheets, allow) ==
    IF all_sheets = <<>> THEN <<>>
    ELSE (IF should_keep_sheet(Head(all_sheets), allow)
          THEN <<Head(all_sheets)>> ELSE <<>>)
         \o KeepSheets(Tail(all_sheets), allow)

\* [ln.strip() for ln in raw if ln.strip()]
RECURSIVE StripLines(_)
StripLines(raw) ==
    IF raw = <<>> THEN <<>>
    ELSE (IF strip(Head(raw)) # <<>> THEN <<strip(Head(raw))>> ELSE <<>>)
         \o StripLines(Tail(raw))

\* <label>__<safe_sheet>.csv or <label>__<safe_sheet>.xlsx is among the files
SheetFileExists_CsvOnly(files, safe_sheet) == <<safe_sheet, "csv">> \in files
SheetFileExists(files, safe_sheet) ==
    <<safe_sheet, "csv">> \in files \/ <<safe_sheet, "xlsx">> \in files

\* the loop of lines 726-732 over kept
RECURSIVE MissingLoop(_, _)
MissingLoop(kept, files) ==
    IF kept = <<>> THEN <<>>
    ELSE (IF ~SheetFileExists(files, sanitize_name(Head(kept)))
          THEN <<Head(kept)>> ELSE <<>>)
         \o MissingLoop(Tail(kept), files)

\* dir.sheets_txt holds the lines read_text yields; a manifest whose read
\* raises is read as no line (lines 715-718).
compute_missing_sheets_for_dashboard(dir, allow) ==
    IF ~dir.sheets_txt.some THEN [manifest |-> None, missing |-> None]
    ELSE LET all_sheets == StripLines(dir.sheets_txt.v) IN
         IF all_sheets = <<>> THEN [manifest |-> Some(<<>>), missing |-> Some(<<>>)]
         ELSE [manifest |-> Some(all_sheets),
               missing |-> Some(MissingLoop(KeepSheets(all_sheets, allow),
                                            dir.files))]

\* s3_read_text gives None for an absent object; an empty text is None too
s3_manifest_for_dashboard(rem) ==
    IF ~rem.sheets_txt.some \/ rem.sheets_txt.v = <<>> THEN None
    ELSE Some(StripLines(rem.sheets_txt.v))

s3_sheet_exists_for(rem, sheet) == SheetFileExists(rem.files, sanitize_name(sheet))

RECURSIVE MissingRemote(_, _)
MissingRemote(kept, rem) ==
    IF kept = <<>> THEN <<>>
    ELSE (IF ~s3_sheet_exists_for(rem, Head(kept)) THEN <<Head(kept)>> ELSE <<>>)
         \o MissingRemote(Tail(kept), rem)

compute_missing_remote(rem, allow) ==
    LET all_sheets == s3_manifest_for_dashboard(rem) IN
    IF ~all_sheets.some THEN [manifest |-> None, missing |-> None]
    ELSE [manifest |-> all_sheets,
          missing |-> Some(MissingRemote(KeepSheets(all_sheets.v, allow), rem))]

\* --------------------------------------------------- process_one_dashboard
\* Inputs of one call: what sheets.txt may hold, the export files that may
\* lie in the dashboard folder and under the dashboard's S3 prefix, the
\* --sheets allow-list, and what the crosstab dialog may list.
MaxLines == 2
RawLines == { <<"A">>, <<" ", "A">>, <<"A", " ", "b">>, <<"A", "/", "b">>, <<" ">> }
ManifestTexts == UNION {[1..n -> RawLines] : n \in 0..MaxLines}
SafeNames == {sanitize_name(l) : l \in RawLines} \ {<<>>}
Files == SafeNames \X {"csv", "xlsx"}
RemoteFiles == SafeNames \X {"csv"}
RemoteManifests ==
    {None, Some(<< <<"A">> >>), Some(<< <<"A">>, <<"A", " ", "b">> >>)}
AllowLists == {None, Some(<< <<"b">> >>)}
DialogLists ==
    { <<>>,
      << <<"A">> >>,
      << <<"A">>, <<"A", " ", "b">> >>,
      << <<"A", " ", "b">>, <<"A", "/", "b">> >> }

\* process_one_well passes these on from the command line
push_to_s3 == TRUE
check_remote == TRUE
\* --purge-local; an unlink that fails leaves what a run without the flag leaves
purge_local == TRUE

PodStart ==
    [pc |-> "start", local_manifest |-> None, local_missing |-> None,
     filtered_to_get |-> None, sheets |-> <<>>, to_get |-> <<>>,
     navigated |-> FALSE, exported |-> <<>>, saved |-> None]

Range(seq) == {seq[i] : i \in 1..Len(seq)}

\* lines 780-782
pod_compute_missing ==
    /\ UNCHANGED <<workerVars, toolVars>>
    /\ pod.pc = "start"
    /\ LET r == compute_missing_sheets_for_dashboard(dash_dir, allow_sheets) IN
       pod' = [pod EXCEPT !.pc = "local_check",
                          !.local_manifest = r.manifest,
                          !.local_missing = r.missing]
    /\ UNCHANGED <<force, allow_sheets, dash_dir, remote>>

\* the test of line 784
LocalComplete_Never(f, local_manifest, local_missing) == FALSE
LocalComplete(f, local_manifest, local_missing) ==
    ~f /\ local_manifest.some /\ local_missing.some /\ Len(local_missing.v) = 0

\* lines 784-791 and 810-811
pod_local_short_circuit ==
    /\ UNCHANGED <<workerVars, toolVars>>
    /\ pod.pc = "local_check"
    /\ IF LocalComplete(force, pod.local_manifest, pod.local_missing)
       THEN pod' = [pod EXCEPT !.pc = "ret_local"]
       ELSE IF ~force /\ check_remote
               /\ (~pod.local_manifest.some
                   \/ (pod.local_missing.some /\ Len(pod.local_missing.v) > 0))
       THEN pod' = [pod EXCEPT !.pc = "remote_check"]
       ELSE pod' = [pod EXCEPT !.pc = "open", !.filtered_to_get = pod.local_missing]
    /\ UNCHANGED <<force, allow_sheets, dash_dir, remote>>

\* [s for s in r_all if s in needed and should_keep_sheet(s, allow_sheets)]
RECURSIVE NeededOf(_, _, _)
NeededOf(r_all, needed, allow) ==
    IF r_all = <<>> THEN <<>>
    ELSE (IF Head(r_all) \in needed /\ should_keep_sheet(Head(r_all), allow)
          THEN <<Head(r_all)>> ELSE <<>>)
         \o NeededOf(Tail(r_all), needed, allow)

\* lines 792-809
pod_remote_short_circuit ==
    /\ UNCHANGED <<workerVars, toolVars>>
    /\ pod.pc = "remote_check"
    /\ LET r == compute_missing_remote(remote, allow_sheets) IN
       IF ~r.manifest.some
       THEN /\ pod' = [pod EXCEPT !.pc = "open", !.filtered_to_get = None]
            /\ UNCHANGED dash_dir
       ELSE IF Len(r.missing.v) = 0
       THEN /\ dash_dir' = [dash_dir EXCEPT !.sheets_txt = r.manifest]
            /\ pod' = [pod EXCEPT !.pc = "ret_remote"]
       ELSE /\ pod' = [pod EXCEPT
                  !.pc = "open",
                  !.filtered_to_get =
                      IF ~pod.local_missing.some THEN r.missing
                      ELSE Some(NeededOf(r.manifest.v,
                                         Range(r.missing.v) \cup Range(pod.local_missing.v),
                                         allow_sheets))]
            /\ UNCHANGED dash_dir
    /\ UNCHANGED <<force, allow_sheets, remote>>

\* lines 814-829: the browser opens the dashboard; the crosstab dialog is
\* empty or lists its sheets, which become the local manifest
pod_open ==
    /\ UNCHANGED <<workerVars, toolVars>>
    /\ pod.pc = "open"
    /\ \E dialog \in DialogLists :
          /\ dash_dir' = [dash_dir EXCEPT !.sheets_txt = Some(dialog)]
          /\ pod' = [pod EXCEPT !.navigated = TRUE,
                                !.sheets = dialog,
                                !.pc = IF dialog = <<>> THEN "ret_empty" ELSE "decide"]
    /\ UNCHANGED <<force, allow_sheets, remote>>

\* a file of the sheet lies in the dashboard folder or under the S3 prefix
HaveSheet(dir, rem, s) ==
    SheetFileExists(dir.files, sanitize_name(s)) \/ s3_sheet_exists_for(rem, s)

\* the loops of lines 845-863 over filtered
RECURSIVE StillMissing(_, _, _, _)
StillMissing(filtered, filtered_to_get, dir, rem) ==
    IF filtered = <<>> THEN <<>>
    ELSE (IF /\ ~filtered_to_get.some \/ Head(filtered) \in Range(filtered_to_get.v)
             /\ ~HaveSheet(dir, rem, Head(filtered))
          THEN <<Head(filtered)>> ELSE <<>>)
         \o StillMissing(Tail(filtered), filtered_to_get, dir, rem)

\* lines 839-863: the final list to download
ToGet(f, filtered, filtered_to_get, dir, rem) ==
    IF f THEN filtered ELSE StillMissing(filtered, filtered_to_get, dir, rem)

\* lines 832-871
pod_decide ==
    /\ UNCHANGED <<workerVars, toolVars>>
    /\ pod.pc = "decide"
    /\ LET filtered == KeepSheets(pod.sheets, allow_sheets)
           to_get == ToGet(force, filtered, pod.filtered_to_get, dash_dir, remote)
       IN IF filtered = <<>>
          THEN pod' = [pod EXCEPT !.pc = "ret_nofiltered"] /\ UNCHANGED remote
          ELSE IF to_get = <<>>
          THEN pod' = [pod EXCEPT !.pc = "ret_nothing"] /\ UNCHANGED remote
          ELSE /\ pod' = [pod EXCEPT !.pc = "loop", !.to_get = to_get]
               /\ remote' = [remote EXCEPT !.markers = @ \cup {".INPROGRESS"}]
    /\ UNCHANGED <<force, allow_sheets, dash_dir>>

\* lines 875-911: one pass of the download loop up to the saved file
pod_download ==
    /\ UNCHANGED <<workerVars, toolVars>>
    /\ pod.pc = "loop"
    /\ pod.to_get # <<>>
    /\ LET sheet == Head(pod.to_get)
           safe_sheet == sanitize_name(sheet)
       IN IF HaveSheet(dash_dir, remote, sheet)
          THEN \* the re-check of lines 879-883: SKIP
               /\ pod' = [pod EXCEPT !.to_get = Tail(@)]
               /\ UNCHANGED dash_dir
          ELSE \E dialog_state \in {"ready", "empty", "raised"}, saved \in BOOLEAN :
               IF dialog_state = "raised"
               THEN \* lines 885-889: the open raised, after its retry or at once
                    /\ ~saved
                    /\ pod' = [pod EXCEPT !.pc = "ret_raised"]
                    /\ UNCHANGED dash_dir
               ELSE IF dialog_state = "empty"
               THEN /\ ~saved
                    /\ pod' = [pod EXCEPT !.pc = "ret_break"]
                    /\ UNCHANGED dash_dir
               ELSE /\ pod' = [pod EXCEPT !.to_get = Tail(@),
                                          !.exported = Append(@, sheet),
                                          !.saved = IF saved /\ push_to_s3
                                                    THEN Some(<<safe_sheet, "csv">>)
                                                    ELSE None,
                                          !.pc = IF saved /\ push_to_s3
                                                 THEN "push" ELSE "loop"]
                    /\ dash_dir' = IF saved
                                   THEN [dash_dir EXCEPT !.files = @ \cup {<<safe_sheet, "csv">>}]
                                   ELSE dash_dir
    /\ UNCHANGED <<force, allow_sheets, remote>>

\* s3_copyto_if_new: True when the key was absent and rclone copyto returned 0
s3_copyto_if_new(rem, key, rc_ok) == key \notin rem.files /\ rc_ok

\* lines 923-924: the local copy is purged after s3_copyto_if_new returned True
PurgeAllowed_Always(uploaded) == purge_local
PurgeAllowed(uploaded) == uploaded /\ purge_local

\* lines 919-931: upload of the saved file, then the purge of the local copy
pod_push ==
    /\ UNCHANGED <<workerVars, toolVars>>
    /\ pod.pc = "push"
    /\ \E rc_ok, unlinked \in BOOLEAN :
        LET saved == pod.saved.v
            uploaded == s3_copyto_if_new(remote, saved, rc_ok)
        IN  /\ unlinked => PurgeAllowed(uploaded)
            /\ remote' = IF uploaded
                         THEN [remote EXCEPT !.files = @ \cup {saved}]
                         ELSE remote
            /\ dash_dir' = IF unlinked
                           THEN [dash_dir EXCEPT !.files = @ \ {saved}]
                           ELSE dash_dir
    /\ pod' = [pod EXCEPT !.pc = "loop", !.saved = None]
    /\ UNCHANGED <<force, allow_sheets>>

\* lines 933-946: the loop has ended; the well's marker follows the remote
pod_finish ==
    /\ UNCHANGED <<workerVars, toolVars>>
    /\ pod.pc = "loop"
    /\ pod.to_get = <<>>
    /\ LET r == compute_missing_remote(remote, allow_sheets) IN
       remote' = [remote EXCEPT !.markers =
                     IF r.manifest.some /\ Len(r.missing.v) = 0
                     THEN @ \cup {".COMPLETE", ".INPROGRESS"}
                     ELSE @ \cup {".INCOMPLETE"}]
    /\ pod' = [pod EXCEPT !.pc = "ret_done"]
    /\ UNCHANGED <<force, allow_sheets, dash_dir>>

\* ---------------------------------------------------------------- linux/scrape_and_push.py
\* main() of scrape_and_push.py: pre-push, scraper, post-push.  Every
\* subprocess (rclone lsf, rclone copy, the scraper) is one step; main()
\* blocks on each of them.

\* relative paths under --out-base that list_payload can return
PayloadFiles == {"W1/a.csv", "W1/b.csv", "W2/a.csv"}
\* return codes of a child process
ReturnCodes == {0, 1, 2}

\* no scrape_and_push run
SapIdle == [pc |-> "idle", local |-> {}, remote |-> [f \in PayloadFiles |-> "none"],
            will_upload |-> 0, ran |-> <<>>, exit_code |-> 0]

\* `rc not in (0, None)` is the failure test of every stage
StageOk_Always(rc) == TRUE
StageOk(rc) == rc = 0

\* the flag --ignore-existing in the rclone copy command line
ignore_existing == TRUE

\* rclone lsf of the destination; [] when rclone fails
rclone_lsf(rem, ok) == IF ok THEN {f \in PayloadFiles : rem[f] # "none"} ELSE {}

\* rclone copy of the local folder to the destination: the files in `sent`
\* are transferred; with --ignore-existing a file whose key exists is skipped
rclone_copy(rem, sent) ==
    [f \in PayloadFiles |->
        IF f \in sent /\ (rem[f] = "none" \/ ~ignore_existing) THEN "ours" ELSE rem[f]]

\* what a run of rclone copy returning rc can have transferred
Transfers(local, rc) == IF rc = 0 THEN {local} ELSE SUBSET local

\* sys.exit(code)
sap_exit(rc) == sap' = [sap EXCEPT !.pc = "exit", !.exit_code = rc]

\* the checks of rclone, python, the scraper script and the wells file
sap_preflight ==
    /\ UNCHANGED sapRest
    /\ sap.pc = "start"
    /\ \E found \in BOOLEAN :
        IF found THEN sap' = [sap EXCEPT !.pc = "pre_summary"] ELSE sap_exit(2)

\* PRE-PUSH SUMMARY / POST-PUSH SUMMARY: will_upload from the listing
sap_summary(at, push, skip) ==
    /\ UNCHANGED sapRest
    /\ sap.pc = at
    /\ \E ok \in BOOLEAN :
        LET remote_before == rclone_lsf(sap.remote, ok)
            dismissed == Cardinality(sap.local \cap remote_before)
            will_upload == Cardinality(sap.local) - dismissed
        IN  sap' = [sap EXCEPT !.will_upload = will_upload,
                               !.pc = IF will_upload > 0 THEN push ELSE skip]

sap_pre_summary == sap_summary("pre_summary", "pre_push", "scraper")
sap_post_summary == sap_summary("post_summary", "post_push", "done")

\* PRE-PUSH / POST-PUSH: rclone_copy, die with its code when it failed
sap_push(at, stage, after) ==
    /\ UNCHANGED sapRest
    /\ sap.pc = at
    /\ \E rc \in ReturnCodes : \E sent \in Transfers(sap.local, rc) :
        sap' = [sap EXCEPT !.remote = rclone_copy(sap.remote, sent),
                           !.ran = Append(@, [stage |-> stage, rc |-> rc]),
                           !.pc = IF StageOk(rc) THEN after ELSE "exit",
                           !.exit_code = IF StageOk(rc) THEN @ ELSE rc]

sap_pre_push == sap_push("pre_push", "pre", "scraper")
sap_post_push == sap_push("post_push", "post", "done")

\* RUN SCRAPER: the scraper adds export files under --out-base
sap_scraper ==
    /\ UNCHANGED sapRest
    /\ sap.pc = "scraper"
    /\ \E rc \in ReturnCodes : \E new \in SUBSET PayloadFiles :
        sap' = [sap EXCEPT !.local = @ \cup new,
                           !.ran = Append(@, [stage |-> "scraper", rc |-> rc]),
                           !.pc = IF StageOk(rc) THEN "post_summary" ELSE "exit",
                           !.exit_code = IF StageOk(rc) THEN @ ELSE rc]

\* ---------------------------------------------------------------- normalize_csv_file
\* A header is a sequence of words and separators, a cell a sequence of
\* characters; the rows are what csv.reader yields and what csv.writer is given.
ADD_UWI_FORMATTED == TRUE
ADD_UWI_SHORT == TRUE
ADD_PROVENANCE == TRUE
STRIP_EMPTY_TRAILING_COLS == TRUE

UWI_Formatted == <<"UWI", "_", "Formatted">>
UWI_Numeric == <<"UWI", "_", "Numeric">>
UWI_Short == <<"UWI", "_", "Short">>
Dashboard == <<"Dashboard">>
Sheet == <<"Sheet">>

\* str.lower() of a word
LowerWord(w) ==
    CASE w = "Well" -> "well" [] w = "Identifier" -> "identifier" [] w = "UWI" -> "uwi"
      [] w = "Formatted" -> "formatted" [] w = "Numeric" -> "numeric" [] w = "Short" -> "short"
      [] w = "Name" -> "name" [] w = "Depth" -> "depth" [] w = "Sheet" -> "sheet"
      [] w = "Dashboard" -> "dashboard" [] OTHER -> w
IsSeparator(t) == t \in {" ", "_"}

\* re.sub(r"[^a-z0-9]+", "", h.strip().lower()), as the words that are joined
RECURSIVE _norm_header(_)
_norm_header(h) ==
    IF h = <<>> THEN <<>>
    ELSE (IF IsSeparator(Head(h)) THEN <<>> ELSE <<LowerWord(Head(h))>>)
         \o _norm_header(Tail(h))

BASE_FORMATTED_SYNS ==
    { <<"well", "identifier">>, <<"formatted", "uwi">>, <<"well", "uwi", "formatted">>,
      <<"enter", "well", "identifier", "uwi">>, <<"prod", "string", "uwi", "formatted">> }
\* the other members of the set hold a character that _norm_header removes
NUMERIC_UWI_SYNS == { <<"well", "uwi">> }

Words(key) == {key[i] : i \in 1..Len(key)}
_is_formatted_header_key(key) ==
    \/ key \in BASE_FORMATTED_SYNS
    \/ ("uwi" \in Words(key) /\ "formatted" \in Words(key))
    \/ key = <<"well", "identifier">>
_is_numeric_uwi_key(key) ==
    \/ key \in NUMERIC_UWI_SYNS
    \/ ("uwi" \in Words(key) /\ "formatted" \notin Words(key) /\ "identifier" \notin Words(key))

\* lines 629-639: the name a header cell gets
MapHeader(h) ==
    LET key == _norm_header(h) IN
    IF _is_formatted_header_key(key) THEN UWI_Formatted
    ELSE IF _is_numeric_uwi_key(key) THEN UWI_Numeric
    ELSE h

\* the sequences over S of length up to n
RECURSIVE SeqsUpTo(_, _)
SeqsUpTo(S, n) ==
    IF n = 0 THEN {<<>>}
    ELSE LET shorter == SeqsUpTo(S, n - 1) IN
         shorter \cup {Append(q, c) : q \in {r \in shorter : Len(r) = n - 1}, c \in S}
Blanks(n) == [i \in 1..n |-> <<>>]
\* r + [""] * (width - len(r))
PadTo(r, width) == IF Len(r) < width THEN r \o Blanks(width - Len(r)) ELSE r
\* (c or "").strip() is falsy
IsBlank(c) == strip(c) = <<>>

\* a column is kept when a data cell of it is not blank; zip(*rows) ends with the shortest row
_drop_all_empty_columns(rows) ==
    IF rows = <<>> THEN rows
    ELSE LET ncols == CHOOSE n \in 0..Len(rows[1]) :
                        /\ \A k \in 1..Len(rows) : n <= Len(rows[k])
                        /\ \E k \in 1..Len(rows) : n = Len(rows[k])
             keep(i) == \E k \in 2..Len(rows) : ~IsBlank(rows[k][i])
             keep_idx == SelectSeq([i \in 1..ncols |-> i], keep)
         IN  [k \in 1..Len(rows) |-> [j \in 1..Len(keep_idx) |-> rows[k][keep_idx[j]]]]

\* header.append(name); for r in data: r.append(value)
AppendColumn(t, name, value) ==
    [header |-> Append(t.header, name),
     data |-> [k \in 1..Len(t.data) |-> Append(t.data[k], value)]]

\* the rows normalize_csv_file writes for the rows it read
normalize_csv_file(rows, wrapped_uwi, dashboard, sheet) ==
    LET header0 == [i \in 1..Len(rows[1]) |-> strip(rows[1][i])]
        header == [i \in 1..Len(header0) |-> MapHeader(header0[i])]
        formatted == {i \in 1..Len(header0) : _is_formatted_header_key(_norm_header(header0[i]))}
        seen_formatted_idx == IF formatted = {} THEN 0
                              ELSE CHOOSE i \in formatted : \A j \in formatted : j <= i
        data0 == [k \in 1..(Len(rows) - 1) |-> PadTo(rows[k + 1], Len(header))]
        t0 == [header |-> header, data |-> data0]
        t1 == IF ~ADD_UWI_FORMATTED THEN t0
              ELSE IF seen_formatted_idx = 0 THEN AppendColumn(t0, UWI_Formatted, wrapped_uwi)
              ELSE [t0 EXCEPT !.data =
                      [k \in 1..Len(data0) |->
                         [data0[k] EXCEPT ![seen_formatted_idx] =
                            IF IsBlank(@) THEN wrapped_uwi ELSE @]]]
        t2 == IF ADD_UWI_SHORT /\ UWI_Short \notin Words(t1.header)
              THEN AppendColumn(t1, UWI_Short, to_short_uwi("root", wrapped_uwi)) ELSE t1
        t3 == IF ADD_PROVENANCE /\ Dashboard \notin Words(t2.header)
              THEN AppendColumn(t2, Dashboard, dashboard) ELSE t2
        t4 == IF ADD_PROVENANCE /\ Sheet \notin Words(t3.header)
              THEN AppendColumn(t3, Sheet, sheet) ELSE t3
        out_rows == <<t4.header>> \o t4.data
        kept_rows == IF STRIP_EMPTY_TRAILING_COLS
                     THEN _drop_all_empty_columns(out_rows) ELSE out_rows
        width == Len(kept_rows[1])
    IN  [k \in 1..Len(kept_rows) |-> SubSeq(PadTo(kept_rows[k], width), 1, width)]

\* the header rows and cells of the export files
CsvHeaderRows ==
    { << <<"Name">> >>,
      << <<"Well", " ", "Identifier">> >>,
      << <<"Name">>, <<"Depth">> >>,
      << <<"Name">>, <<"Well", " ", "UWI">> >>,
      << <<"Well", " ", "Identifier">>, <<"Name">> >>,
      << <<"UWI", "_", "Short">>, <<" ", "Sheet">> >> }
CsvCells == {<<>>, <<"x">>}
MaxRows == 2
CsvRows(width) == SeqsUpTo(CsvCells, width) \ {<<>>}
CsvFiles ==
    {<<>>} \cup
    UNION {{<<h>> \o d : d \in SeqsUpTo(CsvRows(Len(h) + 1), MaxRows)} : h \in CsvHeaderRows}

CsvIdle == [pc |-> "idle", rows |-> <<>>, out |-> <<>>]

\* lines 605-697; a file without rows is left as it is
csv_normalize ==
    /\ UNCHANGED csvRest
    /\ csv.pc = "saved"
    /\ csv' = [csv EXCEPT !.pc = "normalized",
                          !.out = IF csv.rows = <<>> THEN csv.rows
                                  ELSE normalize_csv_file(csv.rows,
                                          ensure_wrapped("root", <<"A">>),
                                          <<"Well_Summary_Report">>, <<"Sheet", "1">>)]

InitCsv ==
    /\ csv \in [pc : {"saved"}, rows : CsvFiles, out : {<<>>}]

CsvStep ==
    \/ csv_normalize

\* ---------------------------------------------------------------- Database/pg_build_warehouse.py
\* build() on one (dashboard, sheet) dataset: union of the headers, creation
\* of the raw table, load of each file.  Headers are sequences of words and
\* separators as in normalize_csv_file.

\* re.sub(r"[^\w]+", "_", s), re.sub(r"_+", "_", ...): the words lowered, each
\* run of separators one "_"
RECURSIVE SnakeJoin(_)
SnakeJoin(h) ==
    IF h = <<>> THEN <<>>
    ELSE IF ~IsSeparator(Head(h)) THEN <<LowerWord(Head(h))>> \o SnakeJoin(Tail(h))
    ELSE IF Len(h) > 1 /\ IsSeparator(h[2]) THEN SnakeJoin(Tail(h))
    ELSE <<"_">> \o SnakeJoin(Tail(h))
\* .strip("_")
StripUnderscore(h) ==
    LET a == IF h # <<>> /\ Head(h) = "_" THEN Tail(h) ELSE h IN
    IF a # <<>> /\ a[Len(a)] = "_" THEN SubSeq(a, 1, Len(a) - 1) ELSE a
snake(h) == LET r == StripUnderscore(SnakeJoin(h)) IN IF r = <<>> THEN <<"col">> ELSE r

norm_key(h) == _norm_header(h)
FORMATTED_SYNS == BASE_FORMATTED_SYNS \cup { <<"uwi", "formatted">> }
\* the other members of the set hold a character that norm_key removes
NUMERIC_SYNS == { <<"well", "uwi">>, <<"uwi">> }

IsFormattedKey(k) ==
    \/ k \in FORMATTED_SYNS
    \/ ("uwi" \in Words(k) /\ "formatted" \in Words(k))
    \/ k = <<"well", "identifier">>

\* one header cell through rename_headers_to_canonical
Canonical(h) ==
    LET k == norm_key(h) IN
    IF IsFormattedKey(k) THEN UWI_Formatted
    ELSE IF k \in NUMERIC_SYNS /\ "formatted" \notin Words(k) THEN UWI_Numeric
    ELSE snake(h)

\* (mapped_header, idx_formatted); idx_fmt is the last formatted column, 0 for None
rename_headers_to_canonical(header) ==
    LET fmt == {i \in 1..Len(header) : IsFormattedKey(norm_key(header[i]))} IN
    [mapped |-> [i \in 1..Len(header) |-> Canonical(header[i])],
     idx_fmt |-> IF fmt = {} THEN 0 ELSE CHOOSE i \in fmt : \A j \in fmt : j <= i]

\* str.lower() of a mapped name
LowerName(m) == [i \in 1..Len(m) |-> LowerWord(m[i])]

wrap_uwi(short_or_wrapped) ==
    LET t == strip(short_or_wrapped) IN
    IF /\ Len(t) >= 3 /\ SubSeq(t, 1, 3) = <<"0", "0", "/">>
       /\ SubSeq(t, Len(t) - 1, Len(t)) = <<"/", "0">>
    THEN t
    ELSE <<"0", "0", "/">> \o t \o <<"/", "0">>

uwi_formatted == <<"uwi", "_", "formatted">>
KEEP_PROVENANCE == TRUE
ProvenanceCols == << <<"source_dashboard">>, <<"source_sheet">>, <<"source_file">> >>

\* lines 293-308: the mapped headers of the files, each name once, in order
RECURSIVE UnionLoop(_, _, _)
UnionLoop(names, seen, acc) ==
    IF names = <<>> THEN acc
    ELSE LET key == LowerName(Head(names)) IN
         IF key \in seen THEN UnionLoop(Tail(names), seen, acc)
         ELSE UnionLoop(Tail(names), seen \cup {key}, Append(acc, Head(names)))

RECURSIVE MappedOfFiles(_)
MappedOfFiles(files) ==
    IF files = <<>> THEN <<>>
    ELSE LET hdr == Head(files).header
             mapped == rename_headers_to_canonical(hdr).mapped
         IN  (IF hdr = <<>> THEN <<>>
              ELSE IF UWI_Formatted \in Words(mapped) THEN mapped
              ELSE Append(mapped, UWI_Formatted))
             \o MappedOfFiles(Tail(files))

\* lines 293-313
union_cols_of(files) ==
    LET u == UnionLoop(MappedOfFiles(files), {}, <<>>)
        snaked == [i \in 1..Len(u) |-> snake(u[i])]
    IN  IF uwi_formatted \notin Words(snaked) THEN <<uwi_formatted>> \o snaked ELSE snaked

\* the columns of the table create_empty_raw creates
create_empty_raw(extra_cols) ==
    <<uwi_formatted>> \o extra_cols \o (IF KEEP_PROVENANCE THEN ProvenanceCols ELSE <<>>)

\* the own cell of a row is kept as its uwi_formatted when it is not blank
KeepOwnCell_Always(c) == TRUE
KeepOwnCell(c) == ~IsBlank(c)

\* lines 331-351: the values inserted for row r of a file, in the order of load_cols
RowOut(info, file_i, mapped, r0, load_cols) ==
    LET r == PadTo(r0, Len(mapped))
        \* {mapped[i]: r[i]}: a later column of the same name wins
        idx(col) == {i \in 1..Len(mapped) : mapped[i] = col}
        has(col) == idx(col) # {}
        get(col) == r[CHOOSE i \in idx(col) : \A j \in idx(col) : j <= i]
        uwi_wrapped == IF info.uwi_short # <<>> THEN wrap_uwi(info.uwi_short) ELSE <<>>
        value(col) ==
            IF col = uwi_formatted
            THEN IF has(col) /\ KeepOwnCell(get(col)) THEN get(col) ELSE uwi_wrapped
            ELSE IF KEEP_PROVENANCE /\ col = <<"source_dashboard">> THEN <<"well_summary_report">>
            ELSE IF KEEP_PROVENANCE /\ col = <<"source_sheet">> THEN <<"sheet_1">>
            ELSE IF KEEP_PROVENANCE /\ col = <<"source_file">> THEN <<"file", file_i>>
            ELSE IF has(col) THEN get(col) ELSE <<>>
    IN  [j \in 1..Len(load_cols) |-> value(load_cols[j])]

WhIdle == [pc |-> "idle", files |-> <<>>, table |-> <<>>, file_i |-> 0, inserted |-> <<>>]

\* 2a and 2b: union of the headers, ensure_raw_table on a table that does not exist
wh_ensure_raw_table ==
    /\ UNCHANGED whRest
    /\ wh.pc = "union"
    /\ LET union_cols == union_cols_of(wh.files) IN
       wh' = [wh EXCEPT !.pc = "load", !.file_i = 1,
                        !.table = create_empty_raw(
                                    SelectSeq(union_cols, LAMBDA c : c # uwi_formatted))]

\* 2c: one file of the dataset is read and its rows are inserted
wh_load_file ==
    /\ UNCHANGED whRest
    /\ wh.pc = "load"
    /\ wh.file_i <= Len(wh.files)
    /\ LET info == wh.files[wh.file_i]
           mapped0 == rename_headers_to_canonical(info.header).mapped
           mapped == [i \in 1..Len(mapped0) |-> snake(mapped0[i])]
           batch == [k \in 1..Len(info.rows) |->
                       [file |-> wh.file_i, row |-> k,
                        values |-> RowOut(info, wh.file_i, mapped, info.rows[k], wh.table)]]
       IN  wh' = [wh EXCEPT !.file_i = @ + 1,
                            !.inserted = IF info.header = <<>> THEN @ ELSE @ \o batch]

\* the dataset is loaded
wh_loaded ==
    /\ UNCHANGED whRest
    /\ wh.pc = "load"
    /\ wh.file_i > Len(wh.files)
    /\ wh' = [wh EXCEPT !.pc = "done"]

\* the export files of one dataset: header line, data lines, well folder
WhHeaders ==
    { <<>>,
      << <<"Name">> >>,
      << <<"Well", " ", "Identifier">>, <<"Name">> >>,
      << <<"Name">>, <<"UWI", "_", "Formatted">> >>,
      << <<"Formatted", " ", "UWI">>, <<"Well", " ", "Identifier">> >>,
      << <<"Well", " ", "UWI">>, <<"UWI", "_", "Short">> >> }
WhCells == {<<" ">>, <<"x">>, <<"y">>}
WhRowLists(h) ==
    LET rows == SeqsUpTo(WhCells, Len(h)) IN
    {<<>>} \cup {<<r>> : r \in rows} \cup {<<r, <<>>>> : r \in rows}
WhFolders == << <<"W1">>, <<"W_2">> >>
WhFileAt(i) ==
    UNION {[uwi_short : {WhFolders[i]}, header : {h}, rows : WhRowLists(h)] : h \in WhHeaders}
WhDatasets ==
    {<<f>> : f \in WhFileAt(1)} \cup
    {<<f, g>> : f \in {x \in WhFileAt(1) : Len(x.rows) <= 1}, g \in {x \in WhFileAt(2) : Len(x.rows) <= 1}}

InitWh ==
    /\ wh \in [pc : {"union"}, files : WhDatasets, table : {<<>>}, file_i : {0},
               inserted : {<<>>}]

WhStep ==
    \/ wh_ensure_raw_table
    \/ wh_load_file
    \/ wh_loaded

\* ---------------------------------------------------------------- crosstab dialog
\* crosstab_state reads the page; the page changes on its own while
\* wait_for_crosstab_ready_or_empty polls.

\* polls that fit into the timeout of the WebDriverWait
MaxPolls == 3

\* what the page can show: the dialog, the text "No sheets to select", sheet
\* thumbnails, the export button
Doms ==
    {d \in [present : BOOLEAN, no_sheets : BOOLEAN, thumbs : 0..2,
            button : {"absent", "disabled", "enabled"}] :
        ~d.present => (~d.no_sheets /\ d.thumbs = 0 /\ d.button = "absent")}

\* the result of crosstab_state on the page: a state, or the exception it raises
crosstab_state(d, stale) ==
    IF ~d.present THEN "NoSuchElementException"
    ELSE IF ~stale /\ d.no_sheets THEN "empty"
    ELSE IF stale THEN "StaleElementReferenceException"
    ELSE IF d.thumbs > 0 /\ d.button = "enabled" THEN "ready"
    ELSE "unknown"

\* _cond: the value that ends the wait
WaitAccepts_Any(result) == result \in {"ready", "empty", "unknown"}
WaitAccepts(result) == result \in {"ready", "empty"}

XtIdle == [pc |-> "idle", dom |-> [present |-> FALSE, no_sheets |-> FALSE, thumbs |-> 0,
                                   button |-> "absent"],
           polls |-> 0, st |-> "none", ret |-> "none"]

\* the page loads, changes or closes the dialog
xt_page_changes ==
    /\ UNCHANGED xtRest
    /\ xt.pc \in {"presence", "poll"}
    /\ \E d \in Doms : d # xt.dom /\ xt' = [xt EXCEPT !.dom = d]

\* the first WebDriverWait: presence of the dialog, TimeoutException otherwise
xt_wait_presence ==
    /\ UNCHANGED xtRest
    /\ xt.pc = "presence"
    /\ IF xt.dom.present THEN xt' = [xt EXCEPT !.pc = "poll", !.polls = 0]
       ELSE IF xt.polls + 1 < MaxPolls THEN xt' = [xt EXCEPT !.polls = @ + 1]
       ELSE xt' = [xt EXCEPT !.pc = "raised", !.ret = "TimeoutException"]

\* one round of wait.until(_cond): NoSuchElementException is ignored, another
\* exception leaves the wait, an accepted state is returned, the timeout raises
xt_poll ==
    /\ UNCHANGED xtRest
    /\ xt.pc = "poll"
    /\ \E stale \in BOOLEAN :
        LET result == crosstab_state(xt.dom, stale) IN
        /\ stale => xt.dom.present
        /\ xt' = IF result = "StaleElementReferenceException"
                 THEN [xt EXCEPT !.pc = "raised", !.st = result, !.ret = result]
                 ELSE IF result # "NoSuchElementException" /\ WaitAccepts(result)
                 THEN [xt EXCEPT !.pc = "returned", !.st = result, !.ret = result]
                 ELSE IF xt.polls + 1 < MaxPolls
                 THEN [xt EXCEPT !.polls = @ + 1, !.st = result]
                 ELSE [xt EXCEPT !.pc = "raised", !.st = result, !.ret = "TimeoutException"]

InitXt ==
    /\ xt \in [pc : {"presence"}, dom : Doms, polls : {0}, st : {"none"}, ret : {"none"}]

XtStep ==
    \/ xt_page_changes
    \/ xt_wait_presence
    \/ xt_poll

\* ---------------------------------------------------------------- UWI forms
\* A wells.txt entry goes through ensure_wrapped in process_one_well; the
\* wrapped form goes through to_short_uwi in normalize_csv_file.
MaxUwiLen == 6
UwiChars == {"0", "A", "a", "/"}
\* load_wells: the stripped non-empty lines of wells.txt
load_wells == SeqsUpTo(UwiChars, MaxUwiLen) \ {<<>>}

UwIdle == [pc |-> "idle", variant |-> "root", entry |-> <<>>, wrapped |-> <<>>, short |-> <<>>]

\* wrapped = ensure_wrapped(raw_uwi)
uw_ensure_wrapped ==
    /\ UNCHANGED uwRest
    /\ uw.pc = "entry"
    /\ uw' = [uw EXCEPT !.pc = "wrapped", !.wrapped = ensure_wrapped(uw.variant, uw.entry)]

\* short = to_short_uwi(wrapped_uwi)
uw_to_short_uwi ==
    /\ UNCHANGED uwRest
    /\ uw.pc = "wrapped"
    /\ uw' = [uw EXCEPT !.pc = "short", !.short = to_short_uwi(uw.variant, uw.wrapped)]

InitUwi ==
    /\ uw \in [pc : {"entry"}, variant : Variants, entry : load_wells,
                wrapped : {<<>>}, short : {<<>>}]

UwiStep ==
    \/ uw_ensure_wrapped
    \/ uw_to_short_uwi

\* ------------------------------------------------- root download loop, open with retry
\* The download loop of process_one_dashboard (lines 875-933) seen from the
\* open of the crosstab dialog: per sheet of to_get one call of
\* open_crosstab_and_wait_state (lines 357-365), after a TimeoutException
\* guard_session_reset and a second call (lines 885-889).  reset is whether
\* Tableau's session-reset dialog is on the page.
OpenOutcomes == {"ready", "empty", "TimeoutException", "StaleElementReferenceException"}

OcIdle == [pc |-> "idle", to_get |-> <<>>, opens |-> 0, guards |-> 0, reset |-> FALSE,
           attempted |-> <<>>, result |-> "none", raised |-> "none", reported |-> FALSE]

\* lines 885-886 and 889: what follows a call of open_crosstab_and_wait_state;
\* only the first call stands inside the try
AfterOpen_AlwaysRetry(outcome, first) ==
    IF outcome = "TimeoutException" THEN "except"
    ELSE IF outcome \in {"ready", "empty"} THEN "opened" ELSE "raised"
AfterOpen(outcome, first) ==
    IF outcome \in {"ready", "empty"} THEN "opened"
    ELSE IF first /\ outcome = "TimeoutException" THEN "except"
    ELSE "raised"

\* the session-reset dialog comes up (the session timed out on the server)
oc_session_reset ==
    /\ UNCHANGED ocRest
    /\ oc.pc \in {"open", "except", "retry"}
    /\ ~oc.reset
    /\ oc' = [oc EXCEPT !.reset = TRUE]

\* one call of open_crosstab_and_wait_state: its guard_session_reset calls
\* click the reset dialog away when they find it; the waits return the
\* dialog's state or raise
open_crosstab_and_wait_state(o, first) ==
    {[o EXCEPT !.opens = @ + 1,
               !.reset = o.reset /\ ~dismissed,
               !.result = IF outcome \in {"ready", "empty"} THEN outcome ELSE "none",
               !.raised = IF outcome \in {"ready", "empty"} THEN "none" ELSE outcome,
               !.pc = AfterOpen(outcome, first)] :
        outcome \in OpenOutcomes, dismissed \in BOOLEAN}

\* lines 885-886: the first open for the sheet
oc_open ==
    /\ UNCHANGED ocRest
    /\ oc.pc = "open"
    /\ oc' \in open_crosstab_and_wait_state([oc EXCEPT !.attempted = Append(@, Head(oc.to_get))],
                                            TRUE)

\* lines 887-888, guard_session_reset lines 323-327: the reset dialog is
\* clicked away when it is there; an exception of the click is swallowed
oc_guard_session_reset ==
    /\ UNCHANGED ocRest
    /\ oc.pc = "except"
    /\ \E dismissed \in BOOLEAN :
        oc' = [oc EXCEPT !.pc = "retry", !.guards = @ + 1, !.raised = "none",
                         !.reset = oc.reset /\ ~dismissed]

\* line 889: the second open, outside any try
oc_retry ==
    /\ UNCHANGED ocRest
    /\ oc.pc = "retry"
    /\ oc' \in open_crosstab_and_wait_state(oc, FALSE)

\* lines 891-933: "empty" ends the loop; otherwise the sheet is exported (or
\* its download times out) and the loop takes the next sheet
oc_export ==
    /\ UNCHANGED ocRest
    /\ oc.pc = "opened"
    /\ oc' = IF oc.result = "empty" \/ Len(oc.to_get) = 1
             THEN [oc EXCEPT !.pc = "finished", !.to_get = IF oc.result = "empty" THEN @ ELSE Tail(@)]
             ELSE [oc EXCEPT !.pc = "open", !.to_get = Tail(@), !.opens = 0, !.guards = 0,
                             !.result = "none"]

\* process_one_well lines 967-976: the exception that left
\* process_one_dashboard is printed as ERROR and the next dashboard follows
oc_process_one_well_except ==
    /\ UNCHANGED ocRest
    /\ oc.pc = "raised"
    /\ oc' = [oc EXCEPT !.pc = "reported", !.reported = TRUE]

\* the loop starts with the sheets that are missing
InitOc ==
    /\ \E to_get \in DialogLists \ {<<>>}, reset \in BOOLEAN :
        oc = [OcIdle EXCEPT !.pc = "open", !.to_get = to_get, !.reset = reset]

OcStep ==
    \/ oc_session_reset
    \/ oc_open
    \/ oc_guard_session_reset
    \/ oc_retry
    \/ oc_export
    \/ oc_process_one_well_except

\* ------------------------------------------------- newtest discover_sheets
\* One call of discover_sheets (lines 500-548) for one well and dashboard.
\* s3 is the text of Data/<label>/<dash>/sheets.txt on S3 (None when there is
\* no object), local the sheets.txt of the dashboard folder.
EMPTY_SHEETS_RETRIES == 2

DsIdle == [pc |-> "idle", s3 |-> None, had |-> None, local |-> None, opened |-> FALSE,
           lists |-> 0, refreshes |-> 0, sheets |-> <<>>, ret |-> None]

\* load_manifest_from_s3 lines 490-493; s3_read_text gives None when rclone
\* cat fails (s3_merge.py lines 35-38)
load_manifest_from_s3(text, read_ok) ==
    IF read_ok /\ text.some THEN Some(StripLines(text.v)) ELSE None

\* line 504: the manifest is used
UseManifest(s3_sheets) == s3_sheets.some /\ Len(s3_sheets.v) > 0

\* lines 503-506
ds_load_manifest ==
    /\ UNCHANGED dsRest
    /\ ds.pc = "start"
    /\ \E read_ok \in BOOLEAN :
        LET s3_sheets == load_manifest_from_s3(ds.s3, read_ok) IN
        IF UseManifest(s3_sheets)
        THEN ds' = [ds EXCEPT !.pc = "returned", !.local = s3_sheets, !.ret = s3_sheets]
        ELSE ds' = [ds EXCEPT !.pc = "open"]

\* lines 509-515: the viz and the crosstab dialog are opened; the waits of
\* enter_viz_context, open_download_flyout and open_crosstab may time out
ds_open ==
    /\ UNCHANGED dsRest
    /\ ds.pc = "open"
    /\ \E timed_out \in BOOLEAN :
        ds' = IF timed_out THEN [ds EXCEPT !.pc = "raised", !.opened = TRUE]
              ELSE [ds EXCEPT !.pc = "list", !.opened = TRUE]

\* lines 518-533: the first list_thumbs
ds_list_thumbs ==
    /\ UNCHANGED dsRest
    /\ ds.pc = "list"
    /\ \E names \in DialogLists :
        ds' = [ds EXCEPT !.sheets = names, !.lists = @ + 1,
                         !.pc = IF names = <<>> THEN "retry" ELSE "save"]

\* lines 534-541: one round of `for _ in range(EMPTY_SHEETS_RETRIES)`, or its end
ds_retry ==
    /\ UNCHANGED dsRest
    /\ ds.pc = "retry"
    /\ IF ds.refreshes < EMPTY_SHEETS_RETRIES
       THEN \E timed_out \in BOOLEAN, names \in DialogLists :
              ds' = IF timed_out
                    THEN [ds EXCEPT !.pc = "raised", !.refreshes = @ + 1]
                    ELSE [ds EXCEPT !.refreshes = @ + 1, !.lists = @ + 1, !.sheets = names,
                                    !.pc = IF names # <<>> THEN "save" ELSE "retry"]
       ELSE ds' = [ds EXCEPT !.pc = "save"]

\* lines 544-547: sheets.txt is written and save_manifest_to_s3 puts the text
\* (lines 495-497; the result of s3_put_text is not looked at)
ds_save ==
    /\ UNCHANGED dsRest
    /\ ds.pc = "save"
    /\ \E put_ok \in BOOLEAN :
        ds' = [ds EXCEPT !.pc = "returned", !.local = Some(ds.sheets), !.ret = Some(ds.sheets),
                         !.s3 = IF put_ok THEN Some(ds.sheets) ELSE @]

\* a call starts on every manifest text within the bounds, or on none
InitDs ==
    /\ \E text \in {None} \cup {Some(t) : t \in ManifestTexts} :
        ds = [DsIdle EXCEPT !.pc = "start", !.s3 = text, !.had = text]

DsStep ==
    \/ ds_load_manifest
    \/ ds_open
    \/ ds_list_thumbs
    \/ ds_retry
    \/ ds_save

\* ------------------------------------------------- old/s3_lock.py, worker_main
\* The root scraper's worker_main (lines 1000-1019) over old/s3_lock.py, for
\* one worker process and the wells of its chunk.  A lock object is absent,
\* fresh (ModTime younger than LOCK_TTL_SECONDS) or stale.
old_chunk == <<"W1", "W2">>
OldWells == {old_chunk[i] : i \in 1..Len(old_chunk)}

OwIdle == [pc |-> "idle", i |-> 1, lock |-> [w \in OldWells |-> "absent"],
           thread |-> [w \in OldWells |-> "none"], released |-> {}, hb |-> "none"]

\* the for loop of worker_main: the next well, or the end of the loop
OwNext(o) == IF o.i < Len(old_chunk) THEN [o EXCEPT !.pc = "acquire", !.i = @ + 1, !.hb = "none"]
             ELSE [o EXCEPT !.pc = "done", !.hb = "none"]

\* old acquire_lock lines 30-50: a fresh lock (or one whose ModTime is not
\* parsed) returns False; otherwise rcat writes the payload over whatever is
\* there and the exit code is the result.  worker_main lines 1002-1004:
\* False means continue.
ow_acquire_lock ==
    /\ UNCHANGED owRest
    /\ ow.pc = "acquire"
    /\ LET w == old_chunk[ow.i] IN
       \E parsed, ok \in BOOLEAN :
          IF ow.lock[w] # "absent" /\ (ow.lock[w] = "fresh" \/ ~parsed)
          THEN ow' = OwNext(ow)
          ELSE IF ok
          THEN ow' = [ow EXCEPT !.pc = "start_hb", !.lock[w] = "fresh",
                                !.released = @ \ {w}]
          ELSE ow' = OwNext(ow)

\* old start_lock_heartbeat lines 60-71: a daemon thread is started and the
\* Thread object is returned
ow_start_lock_heartbeat ==
    /\ UNCHANGED owRest
    /\ ow.pc = "start_hb"
    /\ ow' = [ow EXCEPT !.pc = "work", !.thread[old_chunk[ow.i]] = "touch", !.hb = "Thread"]

\* worker_main lines 1008-1011: process_one_well returns or raises
ow_process_one_well ==
    /\ UNCHANGED owRest
    /\ ow.pc = "work"
    /\ \E raised \in BOOLEAN :
        ow' = [ow EXCEPT !.pc = IF raised THEN "finally_raised" ELSE "finally"]

\* hasattr(hb, "stop"), worker_main line 1014: a threading.Thread has no
\* attribute stop
HasStop(h) == h = "_HB"

\* worker_main lines 1012-1017: hb.stop() when hb has one, then release_lock
\* (old lines 52-54, rclone deletefile); after an exception the loop is left
ow_release_lock ==
    /\ UNCHANGED owRest
    /\ ow.pc \in {"finally", "finally_raised"}
    /\ LET w == old_chunk[ow.i]
           stopped == [ow EXCEPT !.thread[w] = IF HasStop(ow.hb) THEN "none" ELSE @,
                                 !.lock[w] = "absent",
                                 !.released = @ \cup {w}]
       IN ow' = IF ow.pc = "finally" THEN OwNext(stopped)
                ELSE [stopped EXCEPT !.pc = "done", !.hb = "none"]

\* old _loop lines 62-68 and touch_lock lines 56-58 (rclone touch sets the
\* ModTime to now and creates the object when it is absent)
ow_touch_lock ==
    /\ UNCHANGED owRest
    /\ \E w \in OldWells :
        /\ ow.thread[w] = "touch"
        /\ ow' = [ow EXCEPT !.thread[w] = "sleep", !.lock[w] = "fresh"]

\* old _loop lines 68 and 63: the sleep ends and `while True` goes on
ow_sleep_over ==
    /\ UNCHANGED owRest
    /\ \E w \in OldWells :
        /\ ow.thread[w] = "sleep"
        /\ ow' = [ow EXCEPT !.thread[w] = "touch"]

\* LOCK_TTL_SECONDS pass for a lock object that no thread of this worker touches
ow_ttl_passes ==
    /\ UNCHANGED owRest
    /\ \E w \in OldWells :
        /\ ow.lock[w] = "fresh" /\ ow.thread[w] = "none"
        /\ ow' = [ow EXCEPT !.lock[w] = "stale"]

\* worker_main lines 1020-1025: the process ends, and its daemon threads with it
ow_worker_exit ==
    /\ UNCHANGED owRest
    /\ ow.pc = "done"
    /\ ow' = [ow EXCEPT !.pc = "exited", !.thread = [w \in OldWells |-> "none"]]

\* a run starts on wells whose lock objects other processes left behind
InitOld ==
    /\ ow \in [pc : {"acquire"}, i : {1}, lock : [OldWells -> {"absent", "fresh", "stale"}],
               thread : {[w \in OldWells |-> "none"]}, released : {{}}, hb : {"none"}]

OldStep ==
    \/ ow_acquire_lock
    \/ ow_start_lock_heartbeat
    \/ ow_process_one_well
    \/ ow_release_lock
    \/ ow_touch_lock
    \/ ow_sleep_over
    \/ ow_ttl_passes
    \/ ow_worker_exit

\* the tools of the repository other than `tool` do not run
IdleExcept(tool) ==
    /\ IF tool = "sap" THEN TRUE ELSE sap = SapIdle
    /\ IF tool = "uw" THEN TRUE ELSE uw = UwIdle
    /\ IF tool = "csv" THEN TRUE ELSE csv = CsvIdle
    /\ IF tool = "wh" THEN TRUE ELSE wh = WhIdle
    /\ IF tool = "xt" THEN TRUE ELSE xt = XtIdle
    /\ IF tool = "ow" THEN TRUE ELSE ow = OwIdle
    /\ IF tool = "ds" THEN TRUE ELSE ds = DsIdle
    /\ IF tool = "oc" THEN TRUE ELSE oc = OcIdle

InitTools == IdleExcept("none")

InitPush ==
    /\ sap \in [pc : {"start"}, local : SUBSET PayloadFiles,
                remote : [PayloadFiles -> {"none", "theirs"}],
                will_upload : {0}, ran : {<<>>}, exit_code : {0}]

PushStep ==
    \/ sap_preflight
    \/ sap_pre_summary
    \/ sap_pre_push
    \/ sap_scraper
    \/ sap_post_summary
    \/ sap_post_push

\* the folder and the S3 prefix before a call, in any state earlier runs can leave
InitDash ==
    /\ InitWorkers
    /\ InitTools
    /\ force \in BOOLEAN
    /\ allow_sheets \in AllowLists
    /\ dash_dir \in [sheets_txt : {None} \cup {Some(t) : t \in ManifestTexts},
                     files : SUBSET Files]
    /\ remote \in [sheets_txt : RemoteManifests, files : SUBSET RemoteFiles,
                   markers : {{}}]
    /\ pod = PodStart

DashStep ==
    \/ pod_compute_missing
    \/ pod_local_short_circuit
    \/ pod_remote_short_circuit
    \/ pod_open
    \/ pod_decide
    \/ pod_download
    \/ pod_push
    \/ pod_finish

\* ---------------------------------------------------------------- specifications
\* no process_one_dashboard call of the root scraper runs
InitIdle ==
    /\ force = FALSE
    /\ allow_sheets = None
    /\ dash_dir = [sheets_txt |-> None, files |-> {}]
    /\ remote = [sheets_txt |-> None, files |-> {}, markers |-> {}]
    /\ pod = PodStart

Init == InitWorkers /\ InitIdle /\ InitTools

LockStep(p) ==
    \/ purge_expired_locks_list(p)
    \/ purge_expired_locks_delete(p)
    \/ acquire_lock_lsjson(p)
    \/ acquire_lock_delete(p)
    \/ acquire_lock_rcat(p)
    \/ process_one_well_locked(p)
    \/ process_one_well_body(p)
    \/ HB_touch(p)
    \/ HB_wake(p)
    \/ HB_stop(p)
    \/ release_lock(p)
    \/ worker_exit(p)

Next ==
    \/ \E p \in Workers : LockStep(p)
    \/ \E p \in Workers : Crash(p)
    \/ \E p \in Workers : Restart(p)
    \/ \E d \in {HEARTBEAT_SEC, LOCK_TTL_SECONDS} : Tick(d)

Spec == Init /\ [][Next]_vars

\* Without time no lock goes stale, so nothing is purged or taken over, and
\* a heartbeat touch changes no ModTime: those steps are left to Spec.
AcquireStep(p) ==
    \/ purge_expired_locks_list(p)
    \/ acquire_lock_lsjson(p)
    \/ acquire_lock_rcat(p)
    \/ process_one_well_locked(p)
    \/ HB_stop(p)
    \/ release_lock(p)
    \/ worker_exit(p)

WorkStep(p) ==
    \/ can_skip_well_by_state(p)
    \/ state_ensure_well_load(p)
    \/ state_ensure_well_save(p)
    \/ discover_sheets_manifest(p)
    \/ discover_sheets_browser(p)
    \/ process_dashboard_state_load(p)
    \/ process_dashboard_state_save(p)
    \/ process_dashboard_open(p)
    \/ process_dashboard_export(p)
    \/ s3_copyto_if_new_exists(p)
    \/ s3_copyto_if_new_copyto(p)
    \/ s3_copyto_if_new_put(p)
    \/ state_mark_sheet_complete_load(p)
    \/ state_mark_sheet_complete_save(p)
    \/ state_mark_dashboard_done_load(p)
    \/ state_mark_dashboard_done_save(p)
    \/ process_dashboard_marker(p)

NextState ==
    \/ \E p \in Workers : AcquireStep(p)
    \/ \E p \in Workers : WorkStep(p)

SpecState == Init /\ [][NextState]_vars

\* lines 637-649 as one step: state_ensure_well and the dashboard loop,
\* whose exceptions the loop catches (lines 646-647); SpecState takes the
\* reads and writes of these lines one by one
process_one_well_dashboards(p) ==
    /\ UNCHANGED <<dashVars, toolVars>>
    /\ pc[p] = "ensure_load"
    /\ pc' = [pc EXCEPT ![p] = "hb_stop"]
    /\ UNCHANGED <<lockRest, s3Vars, workVars>>

\* the state object an earlier run leaves behind when it completed the well
CompleteState(w) ==
    [exists |-> TRUE,
     uwi_wrapped |-> ensure_wrapped("newtest", <<w>>),
     dashboards |-> [c \in Codes |->
                       [status |-> "complete", files |-> [x \in SheetNames |-> "complete"]]]]

\* The runs in which no process is killed: every worker goes on (each call
\* of rclone returns, each Selenium wait is bounded by its timeout), on a well
\* that an earlier run completed or did not touch; the try block of
\* process_one_well is left by the early return, at its end, or by an exception.
ProcStep(p) ==
    \/ AcquireStep(p)
    \/ can_skip_well_by_state(p)
    \/ process_one_well_dashboards(p)
    \/ process_one_well_raises(p)

NextRelease == \E p \in Workers : ProcStep(p)

InitRelease ==
    /\ lock = [w \in Wells |-> NoLock]
    /\ pc = [p \in Workers |-> "purge_list"]
    /\ well_i = [p \in Workers |-> 1]
    /\ purge_arr = [p \in Workers |-> {}]
    /\ acq = [p \in Workers |-> NoAcq]
    /\ hb = [p \in Workers |-> "none"]
    /\ stop_flag = [p \in Workers |-> FALSE]
    /\ holding = [p \in Workers |-> FALSE]
    /\ state \in [Wells -> {NoState} \cup {CompleteState(w) : w \in Wells}]
    /\ manifest = [w \in Wells |-> [c \in Codes |-> NoManifest]]
    /\ data = [k \in Wells \X Codes \X SheetNames |-> "none"]
    /\ marker = [w \in Wells |-> FALSE]
    /\ dash_i = [p \in Workers |-> 1]
    /\ st = [p \in Workers |-> MinimalState]
    /\ sheets = [p \in Workers |-> <<>>]
    /\ todo = [p \in Workers |-> <<>>]
    /\ clicked = [p \in Workers |-> <<>>]
    /\ InitIdle
    /\ InitTools

SpecRelease ==
    InitRelease /\ [][NextRelease]_vars /\ \A p \in Workers : WF_vars(ProcStep(p))

\* One call of process_one_dashboard of the root scraper, from every state of
\* the dashboard folder and of the S3 prefix within the bounds.
SpecDash == InitDash /\ [][DashStep]_vars

\* one run of scrape_and_push.py from every state of the local folder and of
\* the S3 prefix within the bounds
InitPushRun ==
    /\ InitWorkers
    /\ InitIdle
    /\ IdleExcept("sap")
    /\ InitPush

SpecPush == InitPushRun /\ [][PushStep]_vars

\* the UWI functions of each scraper on every entry within the bounds
InitUwiRun ==
    /\ InitWorkers
    /\ InitIdle
    /\ IdleExcept("uw")
    /\ InitUwi

SpecUwi == InitUwiRun /\ [][UwiStep]_vars

\* normalize_csv_file on every export file within the bounds
InitCsvRun ==
    /\ InitWorkers
    /\ InitIdle
    /\ IdleExcept("csv")
    /\ InitCsv

SpecCsv == InitCsvRun /\ [][CsvStep]_vars

\* build() of the warehouse on every dataset within the bounds
InitWhRun ==
    /\ InitWorkers
    /\ InitIdle
    /\ IdleExcept("wh")
    /\ InitWh

SpecWh == InitWhRun /\ [][WhStep]_vars

\* one call of wait_for_crosstab_ready_or_empty on a page that keeps changing
InitXtRun ==
    /\ InitWorkers
    /\ InitIdle
    /\ IdleExcept("xt")
    /\ InitXt

SpecCrosstab == InitXtRun /\ [][XtStep]_vars

\* one download loop of process_one_dashboard
InitOcRun ==
    /\ InitWorkers
    /\ InitIdle
    /\ IdleExcept("oc")
    /\ InitOc

SpecRetry == InitOcRun /\ [][OcStep]_vars

\* one call of discover_sheets
InitDsRun ==
    /\ InitWorkers
    /\ InitIdle
    /\ IdleExcept("ds")
    /\ InitDs

SpecDiscover == InitDsRun /\ [][DsStep]_vars

\* one run of a root worker over old/s3_lock.py
InitOldRun ==
    /\ InitWorkers
    /\ InitIdle
    /\ IdleExcept("ow")
    /\ InitOld

SpecOld == InitOldRun /\ [][OldStep]_vars

\* ---------------------------------------------------------------- claims
\* C1: at most one worker at a time is between an acquire_lock that returned
\* True and its release_lock for the same well.
C1_MutualExclusion ==
    \A p, q \in Workers : (p # q /\ holding[p] /\ holding[q]) => uwi(p) # uwi(q)

\* p holds its well's lock and its heartbeat thread runs
HeartbeatAlive(p) == holding[p] /\ hb[p] # "none" /\ ~stop_flag[p]
\* q's acquire_lock returns in this step
AcquireReturns(q) == pc[q] \in {"acq_lsjson", "acq_rcat"} /\ pc'[q] = "acq_ret"
\* q's purge_expired_locks deletes in this step
PurgeDeletes(q) == pc[q] = "purge_delete" /\ pc'[q] # "purge_delete"

\* C2: while a worker holds a well's lock with its heartbeat running, the
\* lock's age stays below the TTL, every acquire_lock of another worker on that
\* well returns False, and no purge_expired_locks deletes the lock object.
C2_HeartbeatKeepsLock ==
    [][\A p \in Workers : HeartbeatAlive(p) =>
          /\ lock[uwi(p)].exists => lock[uwi(p)].age < LOCK_TTL_SECONDS
          /\ \A q \in Workers \ {p} :
                /\ (uwi(q) = uwi(p) /\ AcquireReturns(q)) => ~acq'[q].ret
                /\ (PurgeDeletes(q) /\ lock[uwi(p)].exists) => lock'[uwi(p)].exists]_vars

\* acquire_lock of p has returned, having read a lock object last modified
\* more than LOCK_TTL_SECONDS ago, and no write of it failed
ReadStale(p) ==
    /\ pc[p] = "acq_ret"
    /\ acq[p].exists
    /\ acq[p].age > LOCK_TTL_SECONDS
    /\ acq[p].rcat # "fail"

\* C3: an acquire_lock that finds the lock object more than
\* LOCK_TTL_SECONDS old returns True whenever its lock write succeeds.
C3_StaleLockIsTaken ==
    \A p \in Workers : ReadStale(p) => acq[p].ret

\* C4: once a stored state shows a sheet complete, no step sets the sheet
\* back to incomplete or removes its entry.
C4_CompletionMonotonic ==
    [][\A w \in Wells : CompleteIn(state[w]) \subseteq CompleteIn(state'[w])]_vars

\* p clicks export in this step
ExportClick(p) == pc[p] = "export" /\ Len(clicked'[p]) = Len(clicked[p]) + 1
\* position of a sheet in a list without duplicates (0 when absent)
IndexOf(seq, x) == IF \E i \in 1..Len(seq) : seq[i] = x
                   THEN CHOOSE i \in 1..Len(seq) : seq[i] = x ELSE 0

\* C5: process_dashboard clicks export only for sheets of the manifest that
\* the stored state does not show complete, each at most once per call and in
\* manifest order, and opens the viz for export only when some sheet is
\* incomplete.
C5_ExportsOnlyIncomplete ==
    [][\A p \in Workers :
          /\ ExportClick(p) =>
                LET s == Head(todo[p]) IN
                /\ IndexOf(sheets[p], s) > 0
                /\ \A i \in 1..Len(clicked[p]) :
                      IndexOf(sheets[p], clicked[p][i]) < IndexOf(sheets[p], s)
                /\ <<code(p), s>> \notin CompleteIn(state[uwi(p)])
          /\ pc[p] = "open" => todo[p] # <<>>]_vars

\* C6: the object stored at a remote key is the one written by the first
\* successful upload; no later s3_copyto_if_new changes it.
C6_UploadsNeverOverwrite ==
    [][\A k \in DOMAIN data : data[k] # "none" => data'[k] = data[k]]_vars

\* p performs a state_save in this step
StateSaveBy(p) ==
    /\ pc[p] \in {"ensure_save", "pd_save", "mark_save", "done_save"}
    /\ pc'[p] # pc[p]

\* C7: every state_save of a worker happens between its acquire_lock
\* returning True and its release_lock.
C7_SaveOnlyUnderLock ==
    [][\A p \in Workers : StateSaveBy(p) => holding[p]]_vars

\* a worker inside its locked section has saved the minimal state that
\* state_load gives for a missing or unreadable object, and the stored state
\* has no entry although a sheet of the well is uploaded
C7_Witness ==
    \E p \in Workers :
        /\ holding[p] /\ pc[p] = "disc_load"
        /\ state[uwi(p)].exists
        /\ state[uwi(p)].dashboards = EmptyMap
        /\ \E k \in DOMAIN data : k[1] = uwi(p) /\ data[k] # "none"

\* the sheets a manifest lists: its lines without surrounding whitespace,
\* blank lines left out
ListedSheets(raw) ==
    SelectSeq([i \in 1..Len(raw) |-> strip(raw[i])], LAMBDA l : l # <<>>)
\* the allow-listed sheets among them with neither a .csv nor a .xlsx file
MissingSheets(listed, allow, files) ==
    SelectSeq(listed, LAMBDA sh :
        /\ should_keep_sheet(sh, allow)
        /\ <<sanitize_name(sh), "csv">> \notin files
        /\ <<sanitize_name(sh), "xlsx">> \notin files)

\* C8: compute_missing_sheets_for_dashboard returns (None, None) when
\* sheets.txt is absent, ([], []) when it lists no sheet, and otherwise all
\* listed sheets together with the allow-listed ones that have neither a .csv
\* nor a .xlsx file in the dashboard folder, in manifest order.
C8_ComputeMissing ==
    pod.pc = "local_check" =>
        IF ~dash_dir.sheets_txt.some
        THEN pod.local_manifest = None /\ pod.local_missing = None
        ELSE LET listed == ListedSheets(dash_dir.sheets_txt.v) IN
             /\ pod.local_manifest = Some(listed)
             /\ pod.local_missing = Some(MissingSheets(listed, allow_sheets, dash_dir.files))

\* a manifest of two sheets under an allow-list: one is not allow-listed and
\* not reported although it has no file, the other is present as a .xlsx file
\* only, under a file name that differs from the sheet name
C8_Witness ==
    /\ pod.pc = "local_check"
    /\ allow_sheets.some
    /\ pod.local_manifest.some /\ Len(pod.local_manifest.v) = 2
    /\ pod.local_missing = Some(<<>>)
    /\ \E i, j \in 1..2 :
          LET sh == pod.local_manifest.v[i]
              other == pod.local_manifest.v[j]
          IN /\ sanitize_name(sh) # sh
             /\ should_keep_sheet(sh, allow_sheets)
             /\ <<sanitize_name(sh), "xlsx">> \in dash_dir.files
             /\ <<sanitize_name(sh), "csv">> \notin dash_dir.files
             /\ ~should_keep_sheet(other, allow_sheets)
             /\ ~SheetFileExists(dash_dir.files, sanitize_name(other))

\* force is off and the local manifest exists with no missing sheet
LocalManifestComplete ==
    /\ ~force
    /\ dash_dir.sheets_txt.some
    /\ MissingSheets(ListedSheets(dash_dir.sheets_txt.v), allow_sheets, dash_dir.files) = <<>>

\* C9: when force is off and the local manifest exists with no missing
\* sheet, process_one_dashboard returns from its local check; it does not
\* navigate the browser, export, change a local file or write to S3.
C9_ManifestFirstSkip ==
    [][(pod.pc \in {"start", "local_check"} /\ LocalManifestComplete) =>
          /\ pod'.pc \in {"local_check", "ret_local"}
          /\ ~pod'.navigated /\ pod'.exported = <<>>
          /\ dash_dir' = dash_dir /\ remote' = remote]_vars

\* the call returned from the local check although S3 has none of the
\* listed sheets
C9_Witness ==
    /\ pod.pc = "ret_local"
    /\ Len(pod.local_manifest.v) > 0
    /\ remote.files = {}
    /\ ~pod.navigated /\ pod.exported = <<>>

\* C10: with force, a call of process_one_dashboard that runs its download
\* loop to the end has clicked export for every allow-listed sheet of the
\* dashboard.
C10_ForceRedownloadsAll ==
    (force /\ pod.pc = "ret_done") =>
        Range(KeepSheets(pod.sheets, allow_sheets)) \subseteq Range(pod.exported)

\* position of a stage in the order pre-push, scraper, post-push
StageIndex(stage) == CASE stage = "pre" -> 1 [] stage = "scraper" -> 2 [] stage = "post" -> 3

StageRuns == Len(sap'.ran) = Len(sap.ran) + 1

\* C11: scrape_and_push runs pre-push, scraper, post-push in this order: a
\* stage runs only when every stage run before it comes earlier in the order
\* and returned 0, the scraper runs after a successful pre-push or when the
\* pre-push summary found nothing to upload, the post-push runs only after the
\* scraper returned 0, a stage returning a non-zero code ends the program with
\* that code, and no step replaces a remote file that exists.
C11_StagesInOrder ==
    [][/\ Len(sap'.ran) # Len(sap.ran) => StageRuns
       /\ StageRuns =>
            LET new == sap'.ran[Len(sap'.ran)] IN
            /\ \A i \in 1..Len(sap.ran) :
                  /\ StageIndex(sap.ran[i].stage) < StageIndex(new.stage)
                  /\ sap.ran[i].rc = 0
            /\ new.stage = "scraper" =>
                  \/ \E i \in 1..Len(sap.ran) : sap.ran[i].stage = "pre"
                  \/ sap.will_upload = 0
            /\ new.stage = "post" =>
                  \E i \in 1..Len(sap.ran) : sap.ran[i].stage = "scraper"
            /\ new.rc # 0 => sap'.pc = "exit" /\ sap'.exit_code = new.rc
            /\ new.rc = 0 => sap'.pc # "exit"
       /\ sap.pc \in {"exit", "done"} => sap' = sap
       /\ \A f \in PayloadFiles : sap.remote[f] # "none" => sap'.remote[f] = sap.remote[f]
      ]_vars

\* all three stages ran, a local file that existed remotely was skipped and
\* another one was uploaded
C11_Witness ==
    /\ sap.pc = "done"
    /\ Len(sap.ran) = 3
    /\ \E f \in sap.local : sap.remote[f] = "theirs"
    /\ \E f \in sap.local : sap.remote[f] = "ours"

\* an export file of the dashboard exists locally or at its remote key
Present(f) == f \in dash_dir.files \/ f \in remote.files
PresentNext(f) == f \in dash_dir'.files \/ f \in remote'.files

WrappedSplit(v, u) ==
    {i \in 2..3 : /\ i + 2 < Len(u)
                  /\ u[i] = "/"
                  /\ \A k \in 1..(i - 1) : IsPrefixChar(v, u[k])
                  /\ u[Len(u) - 1] = "/"
                  /\ u[Len(u)] = "0"}
IsWrappedForm(v, u) == WrappedSplit(v, u) # {}
BodyOf(v, u) == LET i == CHOOSE i \in WrappedSplit(v, u) : TRUE IN SubSeq(u, i + 1, Len(u) - 2)

\* C15: for every wells.txt entry u, ensure_wrapped(u) is u when u has the form
\* prefix/body/digit and 00/u/0 otherwise, ensure_wrapped of the result is the
\* result, and to_short_uwi of the result is u for an unwrapped u and the body
\* for a wrapped u.
C15_UwiRoundTrip ==
    LET v == uw.variant
        u == uw.entry
    IN  /\ uw.pc \in {"wrapped", "short"} =>
            /\ IsWrappedForm(v, u) => uw.wrapped = u
            /\ ~IsWrappedForm(v, u) => uw.wrapped = <<"0", "0", "/">> \o u \o <<"/", "0">>
            /\ ensure_wrapped(v, uw.wrapped) = uw.wrapped
        /\ uw.pc = "short" =>
            uw.short = IF IsWrappedForm(v, u) THEN BodyOf(v, u) ELSE u

\* an entry that is wrapped for the linux scraper only went through the root
\* scraper's functions and came back
C15_Witness ==
    /\ uw.pc = "short"
    /\ uw.variant = "root"
    /\ IsWrappedForm("linux", uw.entry)
    /\ ~IsWrappedForm("root", uw.entry)
    /\ uw.short = uw.entry

\* the cell of data row k in column i of the file read ("" when the row is shorter)
InputCell(k, i) == IF i <= Len(csv.rows[k + 1]) THEN csv.rows[k + 1][i] ELSE <<>>

\* output column j carries input column i: its header is the (renamed) input
\* header and its cells are the input cells, a blank cell of a formatted-UWI
\* column possibly filled in
CarriesColumn(i, j) ==
    /\ j <= Len(csv.out[1])
    /\ csv.out[1][j] = MapHeader(strip(csv.rows[1][i]))
    /\ \A k \in 1..(Len(csv.rows) - 1) :
          /\ j <= Len(csv.out[k + 1])
          /\ \/ csv.out[k + 1][j] = InputCell(k, i)
             \/ /\ csv.out[1][j] = UWI_Formatted
                /\ IsBlank(InputCell(k, i))

\* C13: normalize_csv_file preserves all original columns: every column of the
\* input header is a column of the output, renamed when it is UWI-like, with
\* the cells of every row unchanged, and the output has the columns
\* UWI_Formatted, UWI_Short, Dashboard and Sheet.
C13_PreservesColumns ==
    (csv.pc = "normalized" /\ csv.rows # <<>>) =>
        /\ Len(csv.out) = Len(csv.rows)
        /\ \A i \in 1..Len(csv.rows[1]) : \E j \in 1..Len(csv.out[1]) : CarriesColumn(i, j)
        /\ {UWI_Formatted, UWI_Short, Dashboard, Sheet} \subseteq Words(csv.out[1])

\* the formatted-UWI cell of data row k of file f as the file holds it: the cell
\* under its (last) formatted-UWI header, "" without such a header or cell
OwnFormattedCell(f, k) ==
    LET idx == rename_headers_to_canonical(f.header).idx_fmt
        r == f.rows[k]
    IN  IF idx > 0 /\ idx <= Len(r) THEN r[idx] ELSE <<>>

JoinKeyColumns == {j \in 1..Len(wh.table) : wh.table[j] = uwi_formatted}
JoinKeyOf(x) == x.values[CHOOSE j \in JoinKeyColumns : TRUE]

\* C14: the raw table build creates has exactly one uwi_formatted column, and
\* every inserted row has there its file's own formatted-UWI cell when that
\* cell is not blank and else 00/<well folder>/0, never the empty string.
C14_WarehouseJoinKey ==
    /\ wh.pc \in {"load", "done"} => Cardinality(JoinKeyColumns) = 1
    /\ \A n \in 1..Len(wh.inserted) :
        LET x == wh.inserted[n]
            f == wh.files[x.file]
            own == OwnFormattedCell(f, x.row)
        IN  /\ JoinKeyOf(x) = IF ~IsBlank(own) THEN own
                              ELSE <<"0", "0", "/">> \o f.uwi_short \o <<"/", "0">>
            /\ JoinKeyOf(x) # <<>>

\* a dataset of two files is loaded: a row of the first keeps its own
\* formatted UWI, a row of the second has a blank one and gets the folder's
C14_Witness ==
    /\ wh.pc = "done"
    /\ \E n, m \in 1..Len(wh.inserted) :
        LET x == wh.inserted[n]
            y == wh.inserted[m]
        IN  /\ x.file = 1 /\ y.file = 2
            /\ ~IsBlank(OwnFormattedCell(wh.files[1], x.row))
            /\ rename_headers_to_canonical(wh.files[2].header).idx_fmt > 0
            /\ IsBlank(OwnFormattedCell(wh.files[2], y.row))
            /\ JoinKeyOf(y) = wrap_uwi(wh.files[2].uwi_short)

\* a round of the wait: crosstab_state is called on the page as it is
PollStep == xt.pc = "poll" /\ xt'.dom = xt.dom /\ xt' # xt
\* ... and reports a state
CrosstabReports == PollStep /\ xt'.st \in {"ready", "empty", "unknown"}

\* C16: wait_for_crosstab_ready_or_empty returns only "ready" or "empty", and
\* ends with a TimeoutException when the polls run out on "unknown";
\* crosstab_state reports "empty" whenever the dialog shows "No sheets to
\* select", thumbnails or not, and "ready" only when a sheet thumbnail exists
\* and the export button is enabled.
C16_CrosstabStates ==
    [][/\ xt'.pc = "returned" => xt'.ret \in {"ready", "empty"}
       /\ (PollStep /\ xt'.pc = "returned") => xt'.ret = xt'.st
       /\ (PollStep /\ xt'.pc = "poll") => xt'.st \in {"unknown", "NoSuchElementException"}
       /\ (PollStep /\ xt'.st = "unknown" /\ xt.polls + 1 >= MaxPolls) =>
            xt'.pc = "raised" /\ xt'.ret = "TimeoutException"
       /\ CrosstabReports =>
            /\ xt.dom.no_sheets => xt'.st = "empty"
            /\ xt'.st = "ready" => xt.dom.thumbs >= 1 /\ xt.dom.button = "enabled"
      ]_vars

\* after a round that saw "unknown" the wait returned "empty" from a dialog that
\* shows the text together with thumbnails and an enabled export button
C16_Witness ==
    /\ xt.pc = "returned"
    /\ xt.ret = "empty"
    /\ xt.polls >= 1
    /\ xt.dom.thumbs >= 1
    /\ xt.dom.button = "enabled"


\* ------------------------------------------------------------------ C17
\* the step of worker p itself that leaves the position at (the end of the
\* process by a signal is not a step of the code at that position)
AcquireAt(p, at) == pc[p] = at /\ pc'[p] \notin {at, "crashed"}

WrittenBy(p) == [exists |-> TRUE, by |-> p, age |-> 0]

C18_WitnessWriteFailed ==
    \E p \in Workers :
        /\ pc[p] = "acq_ret"
        /\ acq[p].exists /\ acq[p].rcat = "fail" /\ ~acq[p].ret
        /\ ~holding[p] /\ ~lock[uwi(p)].exists


\* ------------------------------------------------------------------ C19
\* the three ways out of the try block of process_one_well: the return of
\* line 635, the end of the dashboard loop, and an exception
LeavesTry(p) == pc[p] # "hb_stop" /\ pc'[p] = "hb_stop"

C20_ReleaseOwnLock ==
    [][ \A p \in Workers :
            AcquireAt(p, "release")
              => /\ lock[uwi(p)].exists => lock[uwi(p)].by = p
                 /\ \A q \in Workers \ {p} : ~(holding[q] /\ uwi(q) = uwi(p))
      ]_vars


\* ------------------------------------------------------------------ C21
\* the heartbeat thread of worker p completes an rclone touch that changes
\* the lock object
TouchTakesEffect(p) == hb[p] = "touch" /\ hb'[p] = "sleep" /\ lock' # lock

\* C21: release_lock leaves no object under the key of its well, and no
\* heartbeat touch of a worker takes effect after that worker's hb.stop() and
\* release_lock: a touch that changes the lock object is made by a worker
\* that still holds the lock, so a released lock stays absent until an
\* acquire_lock writes it.
C21_NoTouchAfterRelease ==
    [][ \A p \in Workers :
            /\ AcquireAt(p, "release") => ~lock'[uwi(p)].exists
            /\ TouchTakesEffect(p) => holding[p]
      ]_vars


\* ------------------------------------------------------------------ C22
\* the heartbeat thread started for well w completes an rclone touch
OldTouches(w) == ow.thread[w] = "touch" /\ ow'.thread[w] = "sleep"

\* C22: with old/s3_lock.py, once worker_main has released the lock of a well
\* the worker touches that lock object no more: release_lock leaves the
\* object absent, and no heartbeat thread of the worker touches (and so
\* re-creates or refreshes) the object of a well that the worker has released
\* and not acquired again.
C22_OldNoTouchAfterRelease ==
    [][ /\ \A w \in OldWells :
            OldTouches(w) => w \notin ow.released
        /\ \A w \in OldWells :
            (w \notin ow.released /\ w \in ow'.released) => ow'.lock[w] = "absent"
      ]_vars


\* ------------------------------------------------------------------ C23
\* process_one_well returns at lines 627-629 because acquire_lock returned False
Refused(p) == AcquireAt(p, "acq_ret") /\ ~acq[p].ret
\* a step taken by worker p alone
StepOf(p) == pc'[p] # pc[p] /\ \A q \in Workers \ {p} : pc'[q] = pc[q]
\* the worker has gone through its chunk
ChunkDone(p) == pc[p] \in {"cleanup", "done"}

NonEmptyManifest(text) == text.some /\ StripLines(text.v) # <<>>

\* C24: a call of discover_sheets on a well whose S3 manifest exists and is
\* non-empty returns the manifest's lines without opening the browser and
\* never replaces that manifest; otherwise the dialog is listed, at most
\* 1 + EMPTY_SHEETS_RETRIES times with at most EMPTY_SHEETS_RETRIES
\* refreshes, a retry is made only after an empty list, and the list (empty
\* or not) is then written to the local sheets.txt and put to S3.
C24_DiscoverSheets ==
    [][ /\ (ds.pc = "start" /\ ds'.pc # "start" /\ NonEmptyManifest(ds.s3))
              => (ds'.pc = "returned" /\ ~ds'.opened
                    /\ ds'.ret = Some(StripLines(ds.s3.v)) /\ ds'.local = ds'.ret)
        /\ (ds.pc = "start" /\ ds'.pc # "start" /\ ~NonEmptyManifest(ds.s3))
              => ds'.pc = "open"
        /\ NonEmptyManifest(ds.had) => ds'.s3 = ds.had
        /\ ds'.lists <= 1 + EMPTY_SHEETS_RETRIES /\ ds'.refreshes <= EMPTY_SHEETS_RETRIES
        /\ ds'.lists > ds.lists => (ds.sheets = <<>> /\ ds'.lists = ds.lists + 1)
        /\ (ds.pc = "save" /\ ds'.pc # "save")
              => (/\ ds'.pc = "returned" /\ ds'.ret = Some(ds.sheets)
                  /\ ds'.local = Some(ds.sheets)
                  /\ ds'.s3 \in {Some(ds.sheets), ds.s3}
                  /\ ds.sheets = <<>> => ds.lists = 1 + EMPTY_SHEETS_RETRIES)
      ]_vars


\* ------------------------------------------------------------------ C25
\* a call of open_crosstab_and_wait_state ends
OpenEnds(at) == oc.pc = at /\ oc'.pc # at /\ oc'.opens = oc.opens + 1

\* C25: in the download loop a TimeoutException of the first open for a sheet
\* is followed by guard_session_reset and exactly one more open for that
\* sheet; a success of either open goes on with the sheet; a TimeoutException
\* of the second open leaves process_one_dashboard, so that no further sheet
\* of the dashboard is attempted, and process_one_well reports it.
C25_OpenRetriedOnce ==
    [][ /\ (OpenEnds("open") /\ oc'.raised = "TimeoutException")
              => (oc'.pc = "except" /\ oc'.opens = 1 /\ oc'.guards = 0)
        /\ (oc.pc = "except" /\ oc'.pc # "except")
              => (/\ oc'.pc = "retry" /\ oc'.guards = 1 /\ oc'.opens = 1
                  /\ oc'.reset => oc.reset
                  /\ oc'.attempted = oc.attempted /\ oc'.to_get = oc.to_get)
        /\ (OpenEnds("retry") /\ oc'.raised = "TimeoutException")
              => (oc'.pc = "raised" /\ oc'.opens = 2 /\ oc'.guards = 1)
        /\ ((OpenEnds("open") \/ OpenEnds("retry")) /\ oc'.raised = "none")
              => (oc'.pc = "opened" /\ oc'.result \in {"ready", "empty"})
        /\ oc'.opens <= 2 /\ oc'.guards <= 1
        /\ oc.pc = "raised"
              => (/\ oc'.pc = "reported" /\ oc'.reported
                  /\ oc'.attempted = oc.attempted /\ oc'.to_get = oc.to_get)
        /\ oc.pc = "reported" => oc' = oc
        /\ oc'.reported => oc'.raised # "none"
      ]_vars

\* both opens for the second sheet timed out, with the reset dialog clicked
\* away in between; the exception was reported and the sheet is still to get
C25_Witness ==
    /\ oc.pc = "reported" /\ oc.reported
    /\ oc.raised = "TimeoutException"
    /\ oc.opens = 2 /\ oc.guards = 1
    /\ Len(oc.attempted) = 2 /\ Len(oc.to_get) = 1
    /\ oc.to_get[1] = oc.attempted[2]


\* ------------------------------------------------------------------ C26
\* worker p runs the state_save of state_mark_sheet_complete
MarkSaveBy(p) == pc[p] = "mark_save" /\ pc'[p] # "mark_save"
\* the dict p loaded for it came from the stored object (a failed read gives
\* the minimal dict, which carries no uwi_wrapped)
ReadFromStore(p) == st[p].uwi_wrapped # <<>>

\* C26: no completion is lost between two workers: when a worker saves the
\* state in state_mark_sheet_complete, from a dict it read from the stored
\* object, the stored state afterwards shows complete the sheet it marks and
\* every sheet that the stored state showed complete before, so after two
\* workers have each marked a sheet of the well both sheets are complete.
C26_NoLostUpdate ==
    [][ \A p \in Workers :
            (MarkSaveBy(p) /\ ReadFromStore(p))
              => (CompleteIn(state[uwi(p)]) \cup {<<code(p), Head(todo[p])>>})
                    \subseteq CompleteIn(state'[uwi(p)])
      ]_vars
====
